---- MODULE Spec2Model ----
(***************************************************************************)
(* Model of the bearer-token lifecycle of chatkit-server-go: the claims    *)
(* builder and signer (NewChatkitToken, NewChatkitSUToken,                 *)
(* NewChatkitUserToken), the cached superuser token (authenticator /       *)
(* suTokenManager) and the token-attaching request helpers                 *)
(* (RequestWithSuToken, RequestWithUserToken).                             *)
(*                                                                         *)
(* Time is counted in ticks; TicksPerSecond ticks make one second, so an   *)
(* instant has a sub-second part that Unix() truncates away.               *)
(***************************************************************************)
EXTENDS Integers, Sequences, FiniteSets, TLC

\* ------------------------------------------------------------------ bounds
TicksPerSecond == 2
NumCallers == 2
MaxCalls == 3
MaxTicks == 3

\* ------------------------------------------------------- time (package time)
Second == TicksPerSecond
Minute == 60 * Second
Hour == 60 * Minute

\* time.Time.Unix(): whole seconds since the epoch, sub-second part dropped.
Unix(t) == t \div Second

\* time.Time.Add(d)
Add(t, d) == t + d

AfterOrEqual(t, u) == t >= u
\* time.Time.After(u): strictly later.
After(t, u) == t > u

DurationUnits(d) == <<d, 0>>
\* time.Duration.Seconds(): whole seconds and the remaining ticks.
Seconds(d) == <<d \div Second, d % Second>>

\* ------------------------------------------------- credentials of the tests
InstanceID == "testApp"
KeyID == "keyID"
KeySecret == "keySecret"

\* A *string argument: <<>> is nil, <<u>> points to u.
NilUser == <<>>
UserPtr(u) == <<u>>

\* The empty string returned next to an error, and the zero token field.
EmptyToken == <<>>

\* ---------------------------------------------------------- claims builder
getGenericTokenClaimsNoDuration(instanceID, keyID, expiryDuration, now) ==
  [instance |-> instanceID,
   iss |-> <<"api_keys/", keyID>>,
   iat |-> Unix(now),
   exp |-> Unix(now)]
\* authenticator.go getGenericTokenClaims; now is the time.Now() it reads.
getGenericTokenClaims(instanceID, keyID, expiryDuration, now) ==
  [instance |-> instanceID,
   iss |-> <<"api_keys/", keyID>>,
   iat |-> Unix(now),
   exp |-> Unix(Add(now, expiryDuration))]

getGenericTokenClaimsAppExpiryNow(appID, keyID, expiryDuration, now) ==
  [claims |-> [app |-> appID,
               iss |-> <<"api_keys/", keyID>>,
               iat |-> Unix(now),
               exp |-> Unix(Add(now, expiryDuration))],
   tokenExpiry |-> now]
\* token.go getGenericTokenClaims: claims (with "app") and the expiry instant.
getGenericTokenClaimsApp(appID, keyID, expiryDuration, now) ==
  [claims |-> [app |-> appID,
               iss |-> <<"api_keys/", keyID>>,
               iat |-> Unix(now),
               exp |-> Unix(Add(now, expiryDuration))],
   tokenExpiry |-> Add(now, expiryDuration)]

\* signToken: header.claims.signature, the signature an HMAC of the claims
\* under keySecret (kept symbolic: the pair it is computed from).
signToken(keySecret, jwtClaims) ==
  <<"HS256", jwtClaims, <<keySecret, jwtClaims>> >>

SetSuOnlyWithoutUser(jwtClaims, userID, su) ==
  IF userID # NilUser THEN jwtClaims @@ ("sub" :> userID[1])
  ELSE jwtClaims @@ ("su" :> su)
SetSubUnlessSu(jwtClaims, userID, su) ==
  LET withSu == jwtClaims @@ ("su" :> su)
  IN IF userID # NilUser /\ ~su THEN withSu @@ ("sub" :> userID[1]) ELSE withSu
\* authenticator.go NewChatkitToken lines 50-53: su always, sub when non-nil.
SetSuAndSub(jwtClaims, userID, su) ==
  LET withSu == jwtClaims @@ ("su" :> su)
  IN IF userID # NilUser THEN withSu @@ ("sub" :> userID[1]) ELSE withSu

\* authenticator.go NewChatkitToken; signOK is the outcome of SignedString.
NewChatkitToken(instanceID, keyID, keySecret, userID, su, expiryDuration, now, signOK) ==
  LET jwtClaims == SetSuAndSub(
        getGenericTokenClaims(instanceID, keyID, expiryDuration, now), userID, su)
  IN IF signOK
     THEN [token |-> [AccessToken |-> signToken(keySecret, jwtClaims),
                      TokenType |-> "bearer",
                      ExpiresIn |-> Seconds(expiryDuration)],
           err |-> FALSE]
     ELSE [token |-> [AccessToken |-> EmptyToken, TokenType |-> "",
                      ExpiresIn |-> Seconds(0)],
           err |-> TRUE]

\* token.go NewChatkitSUToken
NewChatkitSUToken(appID, keyID, keySecret, expiryDuration, now, signOK) ==
  LET g == getGenericTokenClaimsApp(appID, keyID, expiryDuration, now)
      jwtClaims == g.claims @@ ("su" :> TRUE)
  IN [tokenString |-> IF signOK THEN signToken(keySecret, jwtClaims) ELSE EmptyToken,
      expiry |-> g.tokenExpiry,
      err |-> ~signOK]

\* token.go NewChatkitUserToken
NewChatkitUserToken(appID, keyID, keySecret, userID, expiryDuration, now, signOK) ==
  LET g == getGenericTokenClaimsApp(appID, keyID, expiryDuration, now)
      jwtClaims == g.claims @@ ("sub" :> userID)
  IN [tokenString |-> IF signOK THEN signToken(keySecret, jwtClaims) ELSE EmptyToken,
      expiry |-> g.tokenExpiry,
      err |-> ~signOK]

\* Reading a signed token back (what jwt.Parse returns as its claims).
ClaimsOf(tok) == tok[2]


\* ------------------------------------------------------ authenticator state
\* time.Hour*24: the lifetime getSUToken / getToken give the superuser token.
SUTokenDuration == 24 * Hour

Callers == 1 .. NumCallers
NoOwner == 0
Variants == {"authenticator", "suTokenManager"}

\* How far the clock may move between two steps of the program: a fraction
\* of a second, or a whole token lifetime.
Advances == {1, SUTokenDuration}

VARIABLES
  clock,         \* what time.Now() returns
  ticks,         \* number of clock advances so far
  variant,       \* which cache is running: authenticator.go or token.go
  tokenExpiry,   \* auth.tokenExpiry
  token,         \* auth.token
  mutex,         \* auth.mutex: NoOwner or the caller holding it
  pc,            \* position of each caller inside getSUToken
  calls,         \* calls of getSUToken started so far
  timeNow,       \* the clock reading a call compares with tokenExpiry
  result,        \* (string, error) returned by each caller's latest call
  gens,          \* history: token generations the latest call performed
  seen,          \* history: the cache as the latest call found it
  regenCount,    \* history: token generations started in total
  signFailures,  \* history: generations whose signing failed
  lastIssued,    \* history: token of the latest successful return
  genAt          \* history: clock readings of the latest successful generation

authVars == <<clock, ticks, variant, tokenExpiry, token, mutex, pc, calls,
              timeNow, result, gens, seen, regenCount, signFailures,
              lastIssued, genAt>>

VARIABLES
  minted,        \* the latest call of a token-generation function and its output
  mintRuns,      \* two calls of token-generation functions, step by step
  sent,          \* requests handed to inst.Request, in order
  ret,           \* what the latest request helper call returned
  dispatches     \* request helper calls so far

VARIABLES
  opRet,         \* the latest call of a service operation and what it returned
  cscRet,        \* the latest call of a chatkitServerClient method and its return
  constructed,   \* the latest call of NewChatkitServerClient and its return
  authResponse   \* the latest call of authenticate and its return

VARIABLES
  ctx,           \* the caller's context: cancelled or not, and what it caught
  mpPc,          \* position of the running SendMultipartMessage call
  mpOptions,     \* its options: SenderID and Parts
  upl,           \* position of the upload goroutine of each part
  requestParts,  \* the requestParts slice of the call
  finished,      \* upload goroutines in the order they returned
  messageSent,   \* whether the message request was handed to the instance
  mpRet,         \* (uint, error) the call returned
  mpGen,         \* auth.Options the call had tokens generated for, in order
  mpOut,         \* requests the call sent, in the order they went out
  mpAnswers,     \* statuses the backend answered them with, as they arrived
  legacyPc,      \* position of a running call of chatkitServerClient.do
  legacyRet      \* the error it returned

mintVars == <<minted, mintRuns>>
flightVars == <<ctx, mpPc, mpOptions, upl, requestParts, finished, messageSent,
                mpRet, mpGen, mpOut, mpAnswers, legacyPc, legacyRet>>
dispVars == <<sent, ret, dispatches>>
clientVars == <<opRet, cscRet, constructed, authResponse>>

\* What the steps of the cached-token operations leave alone.
notAuth == <<mintVars, dispVars, clientVars, flightVars>>

NoResult == [token |-> EmptyToken, err |-> FALSE]
NoSeen == [token |-> EmptyToken, expiry |-> 0, issued |-> EmptyToken,
           genChecked |-> 0]
NoGen == [checked |-> 0, minted |-> 0]

ConstructedNow(now) == now
\* newAuthenticator / newTokenManager: tokenExpiry = time.Now().Add(-time.Minute)
ConstructedExpiry(now) == Add(now, -Minute)

AuthInit ==
  /\ clock = 0
  /\ ticks = 0
  /\ variant \in Variants
  /\ tokenExpiry = ConstructedExpiry(clock)
  /\ token = EmptyToken
  /\ mutex = NoOwner
  /\ pc = [g \in Callers |-> "idle"]
  /\ calls = 0
  /\ timeNow = [g \in Callers |-> 0]
  /\ result = [g \in Callers |-> NoResult]
  /\ gens = [g \in Callers |-> 0]
  /\ seen = [g \in Callers |-> NoSeen]
  /\ regenCount = 0
  /\ signFailures = 0
  /\ lastIssued = EmptyToken
  /\ genAt = NoGen

\* The clock moves on while the program runs.
Tick ==
  /\ ticks < MaxTicks
  /\ \E d \in Advances : clock' = clock + d
  /\ ticks' = ticks + 1
  /\ UNCHANGED <<variant, tokenExpiry, token, mutex, pc, calls, timeNow,
                 result, gens, seen, regenCount, signFailures, lastIssued,
                 genAt>>
  /\ UNCHANGED notAuth

\* A goroutine calls getSUToken() / getToken().
StartCall(g) ==
  /\ pc[g] \in {"idle", "done"}
  /\ calls < MaxCalls
  /\ calls' = calls + 1
  /\ pc' = [pc EXCEPT ![g] = "lock"]
  /\ UNCHANGED <<clock, ticks, variant, tokenExpiry, token, mutex, timeNow,
                 result, gens, seen, regenCount, signFailures, lastIssued,
                 genAt>>
  /\ UNCHANGED notAuth

MutexAlwaysFree(m) == TRUE
\* sync.Mutex.Lock() returns only when nobody holds the mutex.
MutexFree(m) == m = NoOwner

\* auth.mutex.Lock()
Lock(g) ==
  /\ pc[g] = "lock"
  /\ MutexFree(mutex)
  /\ mutex' = g
  /\ pc' = [pc EXCEPT ![g] = "check"]
  /\ UNCHANGED <<clock, ticks, variant, tokenExpiry, token, calls, timeNow,
                 result, gens, seen, regenCount, signFailures, lastIssued,
                 genAt>>
  /\ UNCHANGED notAuth

AlwaysExpired(now, expiry) == TRUE
ExpiredAMinuteLate(now, expiry) == After(now, Add(expiry, Minute))
ExpiredOrAtExpiry(now, expiry) == AfterOrEqual(now, expiry)
\* The test of getSUToken line 166 / getToken line 85.
Expired(now, expiry) == After(now, expiry)

\* timeNow := time.Now(); if timeNow.After(auth.tokenExpiry) {...}; when the
\* test fails: return auth.token, nil, and the deferred Unlock.
CheckExpiry(g) ==
  /\ pc[g] = "check"
  /\ timeNow' = [timeNow EXCEPT ![g] = clock]
  /\ seen' = [seen EXCEPT ![g] =
               [token |-> token, expiry |-> tokenExpiry, issued |-> lastIssued,
                genChecked |-> genAt.checked]]
  /\ gens' = [gens EXCEPT ![g] = 0]
  /\ IF Expired(clock, tokenExpiry)
     THEN /\ pc' = [pc EXCEPT ![g] = "mint"]
          /\ UNCHANGED <<mutex, result, lastIssued>>
     ELSE /\ result' = [result EXCEPT ![g] = [token |-> token, err |-> FALSE]]
          /\ lastIssued' = token
          /\ mutex' = NoOwner
          /\ pc' = [pc EXCEPT ![g] = "done"]
  /\ UNCHANGED <<clock, ticks, variant, tokenExpiry, token, calls,
                 regenCount, signFailures, genAt>>
  /\ UNCHANGED notAuth

GenerateHidingFailure(v, now, signOK) ==
  IF v = "authenticator"
  THEN [tok |-> NewChatkitToken(InstanceID, KeyID, KeySecret, NilUser, TRUE,
                                SUTokenDuration, now, signOK).token.AccessToken,
        expiry |-> 0, err |-> FALSE]
  ELSE LET r == NewChatkitSUToken(InstanceID, KeyID, KeySecret,
                                  SUTokenDuration, now, signOK)
       IN [tok |-> r.tokenString, expiry |-> r.expiry, err |-> FALSE]
\* What the regeneration hands back: (token string, expiry instant, error).
Generate(v, now, signOK) ==
  IF v = "authenticator"
  THEN LET r == NewChatkitToken(InstanceID, KeyID, KeySecret, NilUser, TRUE,
                                SUTokenDuration, now, signOK)
       IN [tok |-> r.token.AccessToken, expiry |-> 0, err |-> r.err]
  ELSE LET r == NewChatkitSUToken(InstanceID, KeyID, KeySecret,
                                  SUTokenDuration, now, signOK)
       IN [tok |-> r.tokenString, expiry |-> r.expiry, err |-> r.err]

\* The expiry the cache stores: timeNow.Add(24h) in authenticator.go, the
\* expiry NewChatkitSUToken returned in token.go.
StoredExpiry(v, checkedAt, mintedExpiry) ==
  IF v = "authenticator" THEN Add(checkedAt, SUTokenDuration) ELSE mintedExpiry

\* The body of the if: NewChatkitToken / NewChatkitSUToken (which reads the
\* clock again); on error return "", err; otherwise store expiry and token and
\* return auth.token, nil. The deferred Unlock runs on both paths.
Regenerate(g) ==
  /\ pc[g] = "mint"
  /\ \E signOK \in BOOLEAN :
       LET r == Generate(variant, clock, signOK)
       IN /\ regenCount' = regenCount + 1
          /\ gens' = [gens EXCEPT ![g] = @ + 1]
          /\ IF r.err
             THEN /\ result' = [result EXCEPT ![g] = [token |-> EmptyToken, err |-> TRUE]]
                  /\ signFailures' = signFailures + 1
                  /\ UNCHANGED <<tokenExpiry, token, lastIssued, genAt>>
             ELSE /\ tokenExpiry' = StoredExpiry(variant, timeNow[g], r.expiry)
                  /\ token' = r.tok
                  /\ result' = [result EXCEPT ![g] = [token |-> r.tok, err |-> FALSE]]
                  /\ lastIssued' = r.tok
                  /\ genAt' = [checked |-> timeNow[g], minted |-> clock]
                  /\ UNCHANGED signFailures
  /\ mutex' = NoOwner
  /\ pc' = [pc EXCEPT ![g] = "done"]
  /\ UNCHANGED <<clock, ticks, variant, calls, timeNow, seen>>
  /\ UNCHANGED notAuth

AuthNext ==
  \/ Tick
  \/ \E g \in Callers : StartCall(g)
  \/ \E g \in Callers : Lock(g)
  \/ \E g \in Callers : CheckExpiry(g)
  \/ \E g \in Callers : Regenerate(g)

vars == <<authVars, mintVars, dispVars, clientVars, flightVars>>

\* -------------------------------------------- the token-generation functions
Users == {"alice", "bob"}
UserArgs == {NilUser} \cup {UserPtr(u) : u \in Users}

\* Durations a caller can pass: negative, zero, a fraction of a second, whole
\* seconds, seconds and a fraction, and the lifetimes the library uses.
Durations == {-Second, 0, 1, Second, Second + 1, Hour, SUTokenDuration}

NoMinted == [fn |-> "none", userID |-> NilUser, su |-> FALSE, d |-> 0,
             now |-> 0, err |-> FALSE, tok |-> EmptyToken]

\* A run of a token-generation function: its arguments, how far it got, the
\* time.Now() it read, the instant it returned at and the token it returned.
NoRun == [in |-> [fn |-> "none", userID |-> NilUser, su |-> FALSE, d |-> 0],
          pc |-> "idle", now |-> 0, at |-> 0, tok |-> EmptyToken]
NoRuns == <<NoRun, NoRun>>

MintInit == minted = NoMinted /\ mintRuns = NoRuns

\* A caller mints a token with NewChatkitToken(..., userID, su, d).
MintChatkitToken ==
  /\ \E userID \in UserArgs, su \in BOOLEAN, d \in Durations, signOK \in BOOLEAN :
       LET r == NewChatkitToken(InstanceID, KeyID, KeySecret, userID, su, d,
                                clock, signOK)
       IN minted' = [fn |-> "NewChatkitToken", userID |-> userID, su |-> su,
                     d |-> d, now |-> clock, err |-> r.err,
                     tok |-> r.token.AccessToken]
  /\ UNCHANGED <<mintRuns, authVars, dispVars, clientVars, flightVars>>

\* A caller mints a token with NewChatkitSUToken(..., d).
MintSUToken ==
  /\ \E d \in Durations, signOK \in BOOLEAN :
       LET r == NewChatkitSUToken(InstanceID, KeyID, KeySecret, d, clock, signOK)
       IN minted' = [fn |-> "NewChatkitSUToken", userID |-> NilUser, su |-> TRUE,
                     d |-> d, now |-> clock, err |-> r.err, tok |-> r.tokenString]
  /\ UNCHANGED <<mintRuns, authVars, dispVars, clientVars, flightVars>>

\* A caller mints a token with NewChatkitUserToken(..., userID, d).
MintUserToken ==
  /\ \E u \in Users, d \in Durations, signOK \in BOOLEAN :
       LET r == NewChatkitUserToken(InstanceID, KeyID, KeySecret, u, d, clock,
                                    signOK)
       IN minted' = [fn |-> "NewChatkitUserToken", userID |-> UserPtr(u),
                     su |-> FALSE, d |-> d, now |-> clock, err |-> r.err,
                     tok |-> r.tokenString]
  /\ UNCHANGED <<mintRuns, authVars, dispVars, clientVars, flightVars>>

\* ---- two runs of a token-generation function
\* What a run is called with: the function and its arguments.
RunDurations == {1, Hour}
RunUserArgs == {NilUser, UserPtr("bob")}
RunInputs ==
  [fn : {"NewChatkitToken"}, userID : RunUserArgs, su : BOOLEAN,
   d : RunDurations]
  \cup [fn : {"NewChatkitSUToken"}, userID : {NilUser}, su : {TRUE},
        d : RunDurations]
  \cup [fn : {"NewChatkitUserToken"}, userID : {UserPtr("bob")},
        su : {FALSE}, d : RunDurations]

\* The token string a call returns when signing succeeds.
TokenString(in, now) ==
  CASE in.fn = "NewChatkitToken" ->
         NewChatkitToken(InstanceID, KeyID, KeySecret, in.userID, in.su, in.d,
                         now, TRUE).token.AccessToken
    [] in.fn = "NewChatkitSUToken" ->
         NewChatkitSUToken(InstanceID, KeyID, KeySecret, in.d, now,
                           TRUE).tokenString
    [] in.fn = "NewChatkitUserToken" ->
         NewChatkitUserToken(InstanceID, KeyID, KeySecret, in.userID[1], in.d,
                             now, TRUE).tokenString

\* Run n is called with its arguments.
CallMint(n) ==
  /\ mintRuns[n].pc = "idle"
  /\ \E in \in RunInputs :
       mintRuns' = [mintRuns EXCEPT ![n] = [@ EXCEPT !.in = in, !.pc = "called"]]
  /\ UNCHANGED <<minted, authVars, dispVars, clientVars, flightVars>>

\* getGenericTokenClaims of run n reads the clock: timeNow := time.Now().
ReadNow(n) ==
  /\ mintRuns[n].pc = "called"
  /\ mintRuns' = [mintRuns EXCEPT ![n] = [@ EXCEPT !.now = clock, !.pc = "read"]]
  /\ UNCHANGED <<minted, authVars, dispVars, clientVars, flightVars>>

TimeNowReadAgain(readNow, clockNow) == clockNow
\* The instant the claims are computed from, when the clock has moved on to
\* clockNow since timeNow was read as readNow: readNow, for iat and for exp.
TimeNowUsed(readNow, clockNow) == readNow

\* Run n builds its claims from timeNow, signs them and returns the token.
SignAndReturn(n) ==
  /\ mintRuns[n].pc = "read"
  /\ LET run == mintRuns[n]
     IN mintRuns' =
          [mintRuns EXCEPT ![n] =
             [run EXCEPT !.tok = TokenString(run.in,
                                             TimeNowUsed(run.now, clock)),
                         !.at = clock, !.pc = "returned"]]
  /\ UNCHANGED <<minted, authVars, dispVars, clientVars, flightVars>>

MintTwiceNext ==
  \/ Tick
  \/ \E n \in 1 .. 2 : CallMint(n)
  \/ \E n \in 1 .. 2 : ReadNow(n)
  \/ \E n \in 1 .. 2 : SignAndReturn(n)

MintNext ==
  \/ Tick
  \/ MintChatkitToken
  \/ MintSUToken
  \/ MintUserToken

\* ------------------------------------------------------ the request helpers
MaxDispatches == 2

Methods == {"GET", "DELETE"}
Paths == {"/users", "/roles"}
RequestOptions == [Method : Methods, Path : Paths]

\* What the exchange of inst.Request can end with: the status the backend
\* answered with, or a transport error.
Outcomes == {200, 404, 0}
TransportError == 0

NoJwt == <<>>
NoResponse == 0
\* The Status of an error that is no *ErrorResponse, and of no error.
NoStatus == 0

\* An answer the platform client hands back as a response.
Is2xx(outcome) == outcome >= 200 /\ outcome <= 299

\* auth.Options as the helpers fill them in.
SuOptions == [Su |-> TRUE, UserID |-> NilUser]
UserOptions(userID) == [Su |-> FALSE, UserID |-> UserPtr(userID)]

\* generateTokenFromInstance: the token inst.GenerateAccessToken made for the
\* options, or "" and an error; genOK is the outcome of GenerateAccessToken.
generateTokenFromInstance(options, genOK) ==
  IF genOK THEN [token |-> <<options>>, err |-> FALSE]
  ELSE [token |-> EmptyToken, err |-> TRUE]

\* The (nil, err) a request helper returns when no request was made.
NotRequested ==
  [out |-> <<>>, resp |-> NoResponse, err |-> TRUE, errStatus |-> NoStatus]

\* inst.Request(ctx, options with Jwt): the request goes out. A 2xx answer
\* comes back as the response with a nil error; any other answer comes back
\* as a nil response and an *ErrorResponse carrying the answer's status; a
\* transport error comes back as a nil response and that error.
InstRequest(options, jwt, outcome) ==
  [out |-> << [Method |-> options.Method, Path |-> options.Path, Jwt |-> jwt] >>,
   resp |-> IF Is2xx(outcome) THEN outcome ELSE NoResponse,
   err |-> ~Is2xx(outcome),
   errStatus |-> IF outcome = TransportError \/ Is2xx(outcome) THEN NoStatus
                 ELSE outcome]

\* The auth.Options a helper passed to inst.GenerateAccessToken, in order.
Generated(options) == [gen |-> <<options>>]

RequestWithSuTokenUnsignedOnError(options, genOK, outcome) ==
  LET t == generateTokenFromInstance(SuOptions, genOK)
  IN IF t.err THEN Generated(SuOptions) @@ InstRequest(options, NoJwt, outcome)
     ELSE Generated(SuOptions) @@ InstRequest(options, <<t.token>>, outcome)
RequestWithSuTokenFromCache(options, genOK, outcome) ==
  [gen |-> <<>>] @@ InstRequest(options, << <<SuOptions>> >>, outcome)
RequestWithSuTokenRetrying(options, genOK, outcome) ==
  LET t == generateTokenFromInstance(SuOptions, genOK)
      r == InstRequest(options, <<t.token>>, outcome)
  IN IF t.err
     THEN Generated(SuOptions) @@ NotRequested
     ELSE IF r.err THEN Generated(SuOptions) @@ [r EXCEPT !.out = r.out \o r.out]
     ELSE Generated(SuOptions) @@ r
\* RequestWithSuToken(inst, ctx, options): generate the su token, return nil
\* and the error if that fails, otherwise inst.Request with Jwt: &token.
RequestWithSuToken(options, genOK, outcome) ==
  LET t == generateTokenFromInstance(SuOptions, genOK)
  IN IF t.err
     THEN Generated(SuOptions) @@ NotRequested
     ELSE Generated(SuOptions) @@ InstRequest(options, <<t.token>>, outcome)

RequestWithUserTokenAsSu(userID, options, genOK, outcome) ==
  RequestWithSuToken(options, genOK, outcome)
\* RequestWithUserToken(inst, ctx, userID, options): the same with a token
\* whose sub is userID.
RequestWithUserToken(userID, options, genOK, outcome) ==
  LET t == generateTokenFromInstance(UserOptions(userID), genOK)
  IN IF t.err
     THEN Generated(UserOptions(userID)) @@ NotRequested
     ELSE Generated(UserOptions(userID)) @@
          InstRequest(options, <<t.token>>, outcome)

NoRet == [fn |-> "none", genErr |-> FALSE, resp |-> NoResponse, err |-> FALSE,
          errStatus |-> NoStatus, sentBefore |-> 0]

DispInit ==
  /\ sent = <<>>
  /\ ret = NoRet
  /\ dispatches = 0

\* A domain operation calls RequestWithSuToken.
CallRequestWithSuToken ==
  /\ dispatches < MaxDispatches
  /\ \E options \in RequestOptions, genOK \in BOOLEAN, outcome \in Outcomes :
       LET r == RequestWithSuToken(options, genOK, outcome)
       IN /\ sent' = sent \o r.out
          /\ ret' = [fn |-> "RequestWithSuToken", genErr |-> ~genOK,
                     resp |-> r.resp, err |-> r.err,
                     errStatus |-> r.errStatus, sentBefore |-> Len(sent)]
  /\ dispatches' = dispatches + 1
  /\ UNCHANGED <<authVars, mintVars, clientVars, flightVars>>

\* A domain operation calls RequestWithUserToken for userID.
CallRequestWithUserToken ==
  /\ dispatches < MaxDispatches
  /\ \E userID \in Users, options \in RequestOptions, genOK \in BOOLEAN,
        outcome \in Outcomes :
       LET r == RequestWithUserToken(userID, options, genOK, outcome)
       IN /\ sent' = sent \o r.out
          /\ ret' = [fn |-> "RequestWithUserToken", genErr |-> ~genOK,
                     resp |-> r.resp, err |-> r.err,
                     errStatus |-> r.errStatus, sentBefore |-> Len(sent)]
  /\ dispatches' = dispatches + 1
  /\ UNCHANGED <<authVars, mintVars, clientVars, flightVars>>

DispNext ==
  \/ CallRequestWithSuToken
  \/ CallRequestWithUserToken

\* ---------------------------------- the service operations (internal packages)
\* Ids and names a caller can pass; the empty string is what validation rejects.
EmptyString == ""
UserIDs == Users \cup {EmptyString}
RoleNames == {EmptyString, "admin"}
RoomIDs == {"r1"}

scopeGlobal == "global"
scopeRoom == "room"
Scopes == {scopeGlobal, scopeRoom}

\* A slice argument: nil, or with elements.
NilSlice == <<>>
Slices == {NilSlice, <<"room:join">>}

\* Response bodies: no bytes, a JSON text of the shape the destination
\* expects, and bytes that are no such text.
EmptyBody == ""
JSONBody == "{json}"
BadBody == "<html>"
Bodies == {EmptyBody, JSONBody, BadBody}

NoValue == <<>>

\* What json.Decoder.Decode makes of a body: the value the JSON text denotes,
\* or an error (io.EOF on an empty body, a syntax or type error otherwise).
JSONDecode(body) ==
  IF body = JSONBody THEN [value |-> <<"value of", body>>, err |-> FALSE]
  ELSE [value |-> NoValue, err |-> TRUE]

\* DecodeResponseBody(body, dest): the decoder's error, wrapped, or nil.
DecodeResponseBody(body) ==
  LET d == JSONDecode(body)
  IN IF d.err THEN [value |-> NoValue, err |-> TRUE]
     ELSE [value |-> d.value, err |-> FALSE]

\* The status the backend answered a helper's request with, if it answered:
\* that of the response, or the one the *ErrorResponse carries.
AnswerStatuses(r) ==
  IF r.resp # NoResponse THEN <<r.resp>>
  ELSE IF r.errStatus # NoStatus THEN <<r.errStatus>>
  ELSE <<>>

\* What a call of an operation did and returned: the auth.Options it had
\* tokens generated for, the requests it sent, whether the request helper
\* and the decoding failed, and the (value, error) pair handed to the caller;
\* errStatus is the Status of the error when it is the helper's
\* *ErrorResponse, and answers the statuses the backend answered the
\* requests of the call with, in the order the answers arrived.
Returned(op, userID, r, decErr, value, err) ==
  [op |-> op, userID |-> userID, gen |-> r.gen, out |-> r.out,
   resp |-> r.resp, reqErr |-> r.err, decErr |-> decErr, value |-> value,
   err |-> err,
   errStatus |-> IF err /\ r.err THEN r.errStatus ELSE NoStatus,
   answers |-> AnswerStatuses(r)]

\* An operation that returned an error before calling a request helper.
NothingSent == [gen |-> <<>>, out |-> <<>>, resp |-> NoResponse, err |-> FALSE,
                errStatus |-> NoStatus]
RejectedAfterToken(op, userID) ==
  Returned(op, userID, Generated(SuOptions) @@ NothingSent, FALSE, NoValue, TRUE)
Rejected(op, userID) == Returned(op, userID, NothingSent, FALSE, NoValue, TRUE)

NoOpRet == Returned("none", EmptyString, NothingSent, FALSE, NoValue, FALSE)

OpsInit == opRet = NoOpRet

\* The services keep no state between calls (their only field is the
\* underlying instance), so a behaviour is one call of one operation.
Idle == opRet = NoOpRet /\ mpPc = "idle"

\* What a call of a service operation leaves alone.
notOps == <<authVars, mintVars, dispVars, cscRet, constructed, authResponse,
           flightVars>>

\* The common shape "request, return err; decode, return err; return value".
RequestThenDecode(op, userID, r, body) ==
  IF r.err THEN Returned(op, userID, r, FALSE, NoValue, TRUE)
  ELSE LET d == DecodeResponseBody(body)
       IN IF d.err THEN Returned(op, userID, r, TRUE, NoValue, TRUE)
          ELSE Returned(op, userID, r, FALSE, d.value, FALSE)

\* The common shape "request, return err; return nil".
RequestOnly(op, userID, r) ==
  IF r.err THEN Returned(op, userID, r, FALSE, NoValue, TRUE)
  ELSE Returned(op, userID, r, FALSE, NoValue, FALSE)

\* -- package authorizer
GetRoles ==
  /\ Idle
  /\ \E genOK \in BOOLEAN, outcome \in Outcomes, body \in Bodies :
       opRet' = RequestThenDecode("GetRoles", EmptyString,
                  RequestWithSuToken([Method |-> "GET", Path |-> <<"/roles">>],
                                     genOK, outcome),
                  body)
  /\ UNCHANGED notOps

\* createRole, behind CreateGlobalRole and CreateRoomRole.
createRole ==
  /\ Idle
  /\ \E role \in [Name : RoleNames, Permissions : Slices, Scope : Scopes],
        genOK \in BOOLEAN, outcome \in Outcomes :
       opRet' = IF role.Name = EmptyString \/ role.Permissions = NilSlice
                THEN Rejected("createRole", EmptyString)
                ELSE RequestOnly("createRole", EmptyString,
                       RequestWithSuToken([Method |-> "POST",
                                           Path |-> <<"/roles">>],
                                          genOK, outcome))
  /\ UNCHANGED notOps

\* deleteRole, behind DeleteGlobalRole and DeleteRoomRole.
deleteRole ==
  /\ Idle
  /\ \E roleName \in RoleNames, scope \in Scopes, genOK \in BOOLEAN,
        outcome \in Outcomes :
       opRet' = RequestOnly("deleteRole", EmptyString,
                  RequestWithSuToken(
                    [Method |-> "DELETE",
                     Path |-> <<"/roles/", roleName, "/scope/", scope>>],
                    genOK, outcome))
  /\ UNCHANGED notOps

\* getPermissions, behind GetPermissionsForGlobalRole / ...ForRoomRole.
getPermissions ==
  /\ Idle
  /\ \E roleName \in RoleNames, scope \in Scopes, genOK \in BOOLEAN,
        outcome \in Outcomes, body \in Bodies :
       opRet' = RequestThenDecode("getPermissions", EmptyString,
                  RequestWithSuToken(
                    [Method |-> "GET",
                     Path |-> <<"/roles/", roleName, "/scope/", scope,
                                "/permissions">>],
                    genOK, outcome),
                  body)
  /\ UNCHANGED notOps

\* updatePermissions, behind UpdatePermissionsForGlobalRole / ...ForRoomRole.
updatePermissions ==
  /\ Idle
  /\ \E roleName \in RoleNames, scope \in Scopes,
        options \in [PermissionsToAdd : Slices, PermissionsToRemove : Slices],
        genOK \in BOOLEAN, outcome \in Outcomes :
       opRet' = IF /\ Len(options.PermissionsToAdd) = 0
                   /\ Len(options.PermissionsToRemove) = 0
                THEN Rejected("updatePermissions", EmptyString)
                ELSE RequestOnly("updatePermissions", EmptyString,
                       RequestWithSuToken(
                         [Method |-> "PUT",
                          Path |-> <<"/roles/", roleName, "/scope/", scope,
                                     "/permissions">>],
                         genOK, outcome))
  /\ UNCHANGED notOps

GetUserRoles ==
  /\ Idle
  /\ \E userID \in UserIDs, genOK \in BOOLEAN, outcome \in Outcomes,
        body \in Bodies :
       opRet' = IF userID = EmptyString THEN Rejected("GetUserRoles", userID)
                ELSE RequestThenDecode("GetUserRoles", userID,
                       RequestWithSuToken(
                         [Method |-> "GET",
                          Path |-> <<"/users/", userID, "/roles">>],
                         genOK, outcome),
                       body)
  /\ UNCHANGED notOps

\* assignRoleToUser, behind AssignGlobalRoleToUser and AssignRoomRoleToUser.
assignRoleToUser ==
  /\ Idle
  /\ \E userID \in UserIDs, roleName \in RoleNames, genOK \in BOOLEAN,
        outcome \in Outcomes :
       opRet' = IF userID = EmptyString \/ roleName = EmptyString
                THEN Rejected("assignRoleToUser", userID)
                ELSE RequestOnly("assignRoleToUser", userID,
                       RequestWithSuToken(
                         [Method |-> "PUT",
                          Path |-> <<"/users/", userID, "/roles">>],
                         genOK, outcome))
  /\ UNCHANGED notOps

\* removeRoleForUser, behind RemoveGlobalRoleForUser and RemoveRoomRoleForUser.
removeRoleForUser ==
  /\ Idle
  /\ \E userID \in UserIDs, genOK \in BOOLEAN, outcome \in Outcomes :
       opRet' = IF userID = EmptyString
                THEN Rejected("removeRoleForUser", userID)
                ELSE RequestOnly("removeRoleForUser", userID,
                       RequestWithSuToken(
                         [Method |-> "DELETE",
                          Path |-> <<"/users/", userID, "/roles">>],
                         genOK, outcome))
  /\ UNCHANGED notOps

\* Tokens a caller of a raw request can put in options.Jwt: none, or one it
\* obtained itself (the tests pass one made by GenerateSUToken).
CallerToken == <<SuOptions>>
CallerJwts == {NoJwt, <<CallerToken>>}
RawOptions == [Method : Methods, Path : {<<p>> : p \in Paths}, Jwt : CallerJwts]

\* What a raw request does: underlyingInstance.Request(ctx, options), with no
\* token generated.
RawRequest(options, outcome) ==
  [gen |-> <<>>] @@ InstRequest(options, options.Jwt, outcome)

\* authorizerService.Request: the raw response and error go back to the caller.
AuthorizerRequest ==
  /\ Idle
  /\ \E options \in RawOptions, outcome \in Outcomes :
       LET r == RawRequest(options, outcome)
       IN opRet' = Returned("AuthorizerRequest", EmptyString, r, FALSE,
                            NoValue, r.err)
  /\ UNCHANGED notOps

\* -- package core
GetUser ==
  /\ Idle
  /\ \E userID \in UserIDs, genOK \in BOOLEAN, outcome \in Outcomes,
        body \in Bodies :
       opRet' = IF userID = EmptyString THEN Rejected("GetUser", userID)
                ELSE RequestThenDecode("GetUser", userID,
                       RequestWithSuToken(
                         [Method |-> "GET", Path |-> <<"/users/", userID>>],
                         genOK, outcome),
                       body)
  /\ UNCHANGED notOps

UpdateUser ==
  /\ Idle
  /\ \E userID \in UserIDs, genOK \in BOOLEAN, outcome \in Outcomes :
       opRet' = IF userID = EmptyString THEN Rejected("UpdateUser", userID)
                ELSE RequestOnly("UpdateUser", userID,
                       RequestWithUserToken(userID,
                         [Method |-> "PUT", Path |-> <<"/users/", userID>>],
                         genOK, outcome))
  /\ UNCHANGED notOps

CreateRoom ==
  /\ Idle
  /\ \E options \in [CreatorID : UserIDs, Name : {EmptyString, "lobby"}],
        genOK \in BOOLEAN, outcome \in Outcomes, body \in Bodies :
       opRet' = IF options.CreatorID = EmptyString \/ options.Name = EmptyString
                THEN Rejected("CreateRoom", options.CreatorID)
                ELSE RequestThenDecode("CreateRoom", options.CreatorID,
                       RequestWithUserToken(options.CreatorID,
                         [Method |-> "POST", Path |-> <<"/rooms">>],
                         genOK, outcome),
                       body)
  /\ UNCHANGED notOps

SendMessage ==
  /\ Idle
  /\ \E options \in [RoomID : RoomIDs, SenderID : UserIDs,
                     Text : {EmptyString, "hi"}],
        genOK \in BOOLEAN, outcome \in Outcomes, body \in Bodies :
       opRet' = IF options.Text = EmptyString \/ options.SenderID = EmptyString
                THEN Rejected("SendMessage", options.SenderID)
                ELSE RequestThenDecode("SendMessage", options.SenderID,
                       RequestWithUserToken(options.SenderID,
                         [Method |-> "POST",
                          Path |-> <<"/rooms/", options.RoomID, "/messages">>],
                         genOK, outcome),
                       body)
  /\ UNCHANGED notOps

\* DeleteMessage: when the request helper returns an error, return nil.
DeleteMessage ==
  /\ Idle
  /\ \E options \in [RoomID : RoomIDs, MessageID : {"1"}], genOK \in BOOLEAN,
        outcome \in Outcomes :
       LET r == RequestWithSuToken(
                  [Method |-> "DELETE",
                   Path |-> <<"/rooms/", options.RoomID, "/messages/",
                              options.MessageID>>],
                  genOK, outcome)
       IN opRet' = IF r.err
                   THEN Returned("DeleteMessage", EmptyString, r, FALSE,
                                 NoValue, FALSE)
                   ELSE Returned("DeleteMessage", EmptyString, r, FALSE,
                                 NoValue, FALSE)
  /\ UNCHANGED notOps

\* coreService.Request, reached through Client.CoreRequest.
CoreRequest ==
  /\ Idle
  /\ \E options \in RawOptions, outcome \in Outcomes :
       LET r == RawRequest(options, outcome)
       IN opRet' = Returned("CoreRequest", EmptyString, r, FALSE, NoValue, r.err)
  /\ UNCHANGED notOps

\* -- package cursors
\* GetReadCursor: when the request helper or the decoding returns an error,
\* return Cursor{} and nil.
GetReadCursor ==
  /\ Idle
  /\ \E userID \in UserIDs, roomID \in RoomIDs, genOK \in BOOLEAN,
        outcome \in Outcomes, body \in Bodies :
       LET r == RequestWithSuToken(
                  [Method |-> "GET",
                   Path |-> <<"/cursors/0/rooms/", roomID, "/users/", userID>>],
                  genOK, outcome)
           d == DecodeResponseBody(body)
       IN opRet' = IF r.err
                   THEN Returned("GetReadCursor", userID, r, FALSE, NoValue,
                                 FALSE)
                   ELSE IF d.err
                   THEN Returned("GetReadCursor", userID, r, TRUE, NoValue,
                                 FALSE)
                   ELSE Returned("GetReadCursor", userID, r, FALSE, d.value,
                                 FALSE)
  /\ UNCHANGED notOps

SetReadCursor ==
  /\ Idle
  /\ \E userID \in UserIDs, roomID \in RoomIDs, genOK \in BOOLEAN,
        outcome \in Outcomes :
       opRet' = IF userID = EmptyString THEN Rejected("SetReadCursor", userID)
                ELSE RequestOnly("SetReadCursor", userID,
                       RequestWithSuToken(
                         [Method |-> "PUT",
                          Path |-> <<"/cursors/0/rooms/", roomID, "/users/",
                                     userID>>],
                         genOK, outcome))
  /\ UNCHANGED notOps

\* cursorsService.Request, reached through Client.CursorsRequest.
CursorsRequest ==
  /\ Idle
  /\ \E options \in RawOptions, outcome \in Outcomes :
       LET r == RawRequest(options, outcome)
       IN opRet' = Returned("CursorsRequest", EmptyString, r, FALSE, NoValue,
                            r.err)
  /\ UNCHANGED notOps

\* -- multipart messages
InlinePart == "inline"
AttachmentPart == "attachment"

\* The presigned URL cannot be parsed by http.NewRequest.
BadURL == -1

\* The options of the presign request and of the message request.
presignOptions(roomID) ==
  [Method |-> "POST", Path |-> <<"/rooms/", roomID, "/attachments">>]
messageOptions(roomID) ==
  [Method |-> "POST", Path |-> <<"/rooms/", roomID, "/messages">>]

\* requestPresignedURL: a request with the sender's token, then the upload
\* URL and attachment id decoded from the response.
requestPresignedURL(senderID, roomID, genOK, outcome, body) ==
  LET r == RequestWithUserToken(senderID, presignOptions(roomID), genOK, outcome)
      d == DecodeResponseBody(body)
  IN IF r.err THEN [gen |-> r.gen, out |-> r.out, url |-> NoValue, err |-> TRUE]
     ELSE IF d.err
     THEN [gen |-> r.gen, out |-> r.out, url |-> NoValue, err |-> TRUE]
     ELSE [gen |-> r.gen, out |-> r.out, url |-> d.value, err |-> FALSE]

\* uploadToURL: a PUT of the file to the presigned URL with a plain
\* http.Client and no token; an error unless the status is 2xx.
uploadToURL(url, outcome) ==
  IF outcome = BadURL THEN [out |-> <<>>, err |-> TRUE]
  ELSE [out |-> << [Method |-> "PUT", Path |-> <<"upload_url">> \o url,
                    Jwt |-> NoJwt] >>,
        err |-> outcome = TransportError \/ outcome < 200 \/ outcome >= 300]

\* ------------------------------------ the first client (chatkitServerClient)
CHATKIT_AUTH == "chatkit_authorizer"
CHATKIT_SERVER == "chatkit"

\* buildServiceEndpoint(host, service, apiVersion, appID)
buildServiceEndpoint(host, service, apiVersion, appID) ==
  <<"https://", host, "/services/", service, "/", apiVersion, "/", appID>>

\* The endpoints newChatkitServerClient gives the client.
authEndpoint == buildServiceEndpoint("host", CHATKIT_AUTH, "v1", InstanceID)
serverEndpoint == buildServiceEndpoint("host", CHATKIT_SERVER, "v1", InstanceID)

NilBody == <<>>
NoRequest == <<>>
NoError == <<>>

\* newRequest(method, service, path, body): the URL from the service's
\* endpoint, the body encoded, and Content-Type set when there is a body. No
\* other header is set.
newRequest(method, service, path, body) ==
  IF service \notin {CHATKIT_AUTH, CHATKIT_SERVER}
  THEN [req |-> NoRequest, err |-> <<"no service was provided to newRequest">>]
  ELSE [req |-> << [Method |-> method,
                    URL |-> (IF service = CHATKIT_AUTH THEN authEndpoint
                             ELSE serverEndpoint) \o path,
                    Header |-> IF body # NilBody
                               THEN {<<"Content-Type", "application/json">>}
                               ELSE {}] >>,
        err |-> NoError]

\* Responses a server can give: the status line and its code.
Responses == {[StatusCode |-> 200, Status |-> "200 OK"],
              [StatusCode |-> 204, Status |-> "204 No Content"],
              [StatusCode |-> 300, Status |-> "300 Multiple Choices"],
              [StatusCode |-> 404, Status |-> "404 Not Found"]}

\* What Client.Do and the reading of the body come to: a transport error, or
\* a response with its body, which may fail to be read.
Exchanges == [doOK : BOOLEAN, resp : Responses, body : Bodies, readOK : BOOLEAN]

\* do(req, v): send; an error from Client.Do is returned; a status >= 300 is
\* an error made of the status and, when it can be read, the body; otherwise
\* the body is decoded into v when there is a v. hasV says whether v != nil.
do(req, hasV, x) ==
  IF ~x.doOK THEN [sent |-> req, err |-> <<"transport">>, v |-> NoValue]
  ELSE IF x.resp.StatusCode >= 300
       THEN IF ~x.readOK
            THEN [sent |-> req, err |-> <<x.resp.Status>>, v |-> NoValue]
            ELSE [sent |-> req, err |-> <<x.resp.Status, ": ", x.body>>,
                  v |-> NoValue]
  ELSE IF hasV
       THEN LET d == JSONDecode(x.body)
            IN [sent |-> req,
                err |-> IF d.err THEN <<"decode">> ELSE NoError,
                v |-> d.value]
  ELSE [sent |-> req, err |-> NoError, v |-> NoValue]

\* What a method of the client did and returned: the exchange it met, the
\* requests it sent, and the (value, error) pair.
CscReturned(op, hasV, x, sentReqs, value, err) ==
  [op |-> op, hasV |-> hasV, x |-> x, sent |-> sentReqs, value |-> value,
   err |-> err]

NoExchange == [doOK |-> TRUE, resp |-> [StatusCode |-> 200, Status |-> "200 OK"],
               body |-> EmptyBody, readOK |-> TRUE]
NoCscRet == CscReturned("none", FALSE, NoExchange, <<>>, NoValue, NoError)

CscInit == cscRet = NoCscRet

notCsc == <<authVars, mintVars, dispVars, opRet, constructed, authResponse,
           flightVars>>

\* The shape "req, err := newRequest(...); if err != nil return err;
\* return do(req, v)" of every method, with the value the method hands back
\* being what do decoded into v.
RequestAndDo(op, n, hasV, x) ==
  IF n.err # NoError THEN CscReturned(op, hasV, x, <<>>, NoValue, n.err)
  ELSE LET d == do(n.req, hasV, x)
       IN CscReturned(op, hasV, x, d.sent, d.v, d.err)

CreateRole ==
  /\ \E role \in [Name : RoleNames, Scope : Scopes], x \in Exchanges :
       cscRet' = RequestAndDo("CreateRole",
                   newRequest("POST", CHATKIT_AUTH, <<"/roles">>, <<role>>),
                   FALSE, x)
  /\ UNCHANGED notCsc

CscGetRoles ==
  /\ \E x \in Exchanges :
       cscRet' = RequestAndDo("GetRoles",
                   newRequest("GET", CHATKIT_AUTH, <<"/roles">>, NilBody),
                   TRUE, x)
  /\ UNCHANGED notCsc

DeleteRole ==
  /\ \E roleName \in RoleNames, scopeType \in Scopes \cup {EmptyString},
        x \in Exchanges :
       cscRet' =
         IF roleName = EmptyString \/ scopeType = EmptyString
         THEN CscReturned("DeleteRole", FALSE, x, <<>>, NoValue,
                <<"Role name and Scope type cannot be empty strings">>)
         ELSE RequestAndDo("DeleteRole",
                newRequest("DELETE", CHATKIT_AUTH,
                           <<"/roles/", roleName, "/scope/", scopeType>>,
                           NilBody),
                FALSE, x)
  /\ UNCHANGED notCsc

GetRolePermissions ==
  /\ \E roleName \in RoleNames, scopeName \in Scopes, x \in Exchanges :
       cscRet' = RequestAndDo("GetRolePermissions",
                   newRequest("GET", CHATKIT_AUTH,
                              <<"/roles/", roleName, "/scope/", scopeName,
                                "/permissions">>,
                              NilBody),
                   TRUE, x)
  /\ UNCHANGED notCsc

CreateUser ==
  /\ \E user \in [ID : Users, Name : {"dave"}], x \in Exchanges :
       cscRet' = RequestAndDo("CreateUser",
                   newRequest("POST", CHATKIT_SERVER, <<"/users">>, <<user>>),
                   FALSE, x)
  /\ UNCHANGED notCsc

CscNext ==
  \/ CreateRole
  \/ CscGetRoles
  \/ DeleteRole
  \/ GetRolePermissions
  \/ CreateUser

\* ------------------------------------------ construction (NewChatkitServerClient)
\* Configuration strings: sequences of characters, one of them the colon.
MaxLen == 7
Colon == ":"
Chars == {"a", Colon}
Strings == UNION {[1 .. n -> Chars] : n \in 0 .. MaxLen}

\* strings.Split(s, ":"): the pieces between the colons, in order; one piece
\* more than there are colons.
RECURSIVE Split(_)
Split(s) ==
  IF \A i \in 1 .. Len(s) : s[i] # Colon THEN <<s>>
  ELSE LET i == CHOOSE i \in 1 .. Len(s) :
                  s[i] = Colon /\ \A j \in 1 .. i - 1 : s[j] # Colon
       IN <<SubSeq(s, 1, i - 1)>> \o Split(SubSeq(s, i + 1, Len(s)))

NoComponents == <<>>

getColonSeperatedComponentsAllowingEmpty(s, expectedComponents) ==
  IF s = <<>> THEN [components |-> NoComponents, err |-> <<"empty string">>]
  ELSE LET components == Split(s)
       IN IF Len(components) # expectedComponents
          THEN [components |-> NoComponents, err |-> <<"incorrect format">>]
          ELSE [components |-> components, err |-> NoError]
\* getColonSeperatedComponents(s, expectedComponents): an error for the empty
\* string, for another number of components than expected, and for an empty
\* component; otherwise the components.
getColonSeperatedComponents(s, expectedComponents) ==
  IF s = <<>> THEN [components |-> NoComponents, err |-> <<"empty string">>]
  ELSE LET components == Split(s)
       IN IF Len(components) # expectedComponents
          THEN [components |-> NoComponents, err |-> <<"incorrect format">>]
          ELSE IF \E i \in 1 .. Len(components) : components[i] = <<>>
          THEN [components |-> NoComponents, err |-> <<"incorrect format">>]
          ELSE [components |-> components, err |-> NoError]

\* getInstanceIDComponents(instanceID): apiVersion, host, appID.
getInstanceIDComponents(instanceID) ==
  LET c == getColonSeperatedComponents(instanceID, 3)
  IN IF c.err # NoError
     THEN [apiVersion |-> <<>>, host |-> <<>>, appID |-> <<>>, err |-> c.err]
     ELSE [apiVersion |-> c.components[1], host |-> c.components[2],
           appID |-> c.components[3], err |-> NoError]

\* getKeyComponents(key): keyID, keySecret.
getKeyComponents(key) ==
  LET c == getColonSeperatedComponents(key, 2)
  IN IF c.err # NoError THEN [keyID |-> <<>>, keySecret |-> <<>>, err |-> c.err]
     ELSE [keyID |-> c.components[1], keySecret |-> c.components[2],
           err |-> NoError]

\* newTokenManager(appID, keyID, keySecret): an expired, empty cache.
newTokenManager(appID, keyID, keySecret, now) ==
  [tokenExpiry |-> ConstructedExpiry(now), token |-> EmptyToken,
   appID |-> appID, keyID |-> keyID, keySecret |-> keySecret]

\* newChatkitServerClient(host, apiVersion, appID, tokenManager)
newChatkitServerClient(host, apiVersion, appID, tokenManager) ==
  [authEndpoint |-> buildServiceEndpoint(host, CHATKIT_AUTH, apiVersion, appID),
   serverEndpoint |-> buildServiceEndpoint(host, CHATKIT_SERVER, apiVersion,
                                           appID),
   tokenManager |-> tokenManager]

NoClient == <<>>

\* What the latest call of NewChatkitServerClient was given and returned.
Constructed(instanceID, key, client, err) ==
  [called |-> TRUE, instanceID |-> instanceID, key |-> key, client |-> client,
   err |-> err]
NotConstructed ==
  [called |-> FALSE, instanceID |-> <<>>, key |-> <<>>, client |-> NoClient,
   err |-> NoError]

ConfigInit == constructed = NotConstructed

\* NewChatkitServerClient(instanceID, key): parse the locator, then the key,
\* and only then make the token manager and the client. A behaviour is one
\* construction.
NewChatkitServerClient ==
  /\ ~constructed.called
  /\ \E instanceID \in Strings, key \in Strings :
       LET l == getInstanceIDComponents(instanceID)
           k == getKeyComponents(key)
       IN constructed' =
            IF l.err # NoError THEN Constructed(instanceID, key, NoClient, l.err)
            ELSE IF k.err # NoError
            THEN Constructed(instanceID, key, NoClient, k.err)
            ELSE Constructed(instanceID, key,
                   << newChatkitServerClient(l.host, l.apiVersion, l.appID,
                        newTokenManager(l.appID, k.keyID, k.keySecret, clock)) >>,
                   NoError)
  /\ UNCHANGED <<authVars, mintVars, dispVars, opRet, cscRet, authResponse,
                 flightVars>>

ConfigNext == NewChatkitServerClient

\* --------------------------------------------------- authenticate (userID)
\* map[string]string{}
NoHeaders == {}

authenticateFromCache(userID, now, signOK) ==
  [Status |-> 200, Headers |-> NoHeaders,
   Body |-> [AccessToken |-> token, TokenType |-> "bearer",
             ExpiresIn |-> Seconds(24 * Hour)]]
authenticateAlwaysOK(userID, now, signOK) ==
  [Status |-> 200, Headers |-> NoHeaders,
   Body |-> NewChatkitToken(InstanceID, KeyID, KeySecret, UserPtr(userID),
                            FALSE, 24 * Hour, now, signOK).token]
\* authenticator.authenticate(userID): a day-long token of the user, wrapped
\* as a response; a response with status 500 when signing fails.
authenticate(userID, now, signOK) ==
  LET r == NewChatkitToken(InstanceID, KeyID, KeySecret, UserPtr(userID),
                           FALSE, 24 * Hour, now, signOK)
  IN IF r.err
     THEN [Status |-> 500, Headers |-> NoHeaders,
           Body |-> [ErrorType |-> "token_provider/token_signing_failure",
                     ErrorDescription |->
                       "There was an error signing the token"]]
     ELSE [Status |-> 200, Headers |-> NoHeaders, Body |-> r.token]

\* What the latest call of authenticate was given and returned.
NotAuthenticated ==
  [called |-> FALSE, userID |-> EmptyString, signOK |-> FALSE,
   resp |-> <<>>]

AuthenticateInit == authResponse = NotAuthenticated

\* A call of authenticate(userID) at the present time.
Authenticate ==
  /\ \E userID \in UserIDs, signOK \in BOOLEAN :
       authResponse' = [called |-> TRUE, userID |-> userID, signOK |-> signOK,
                        resp |-> <<authenticate(userID, clock, signOK)>>]
  /\ UNCHANGED <<authVars, mintVars, dispVars, opRet, cscRet, constructed,
                 flightVars>>

AuthenticateNext == Tick \/ Authenticate

\* Per-user tokens next to the cached superuser token: calls of authenticate
\* and of an operation that uses RequestWithUserToken, before, while and
\* after one call of getSUToken fills the cache.
PerUserNext ==
  \/ Tick
  \/ calls = 0 /\ StartCall(1)
  \/ Lock(1)
  \/ CheckExpiry(1)
  \/ Regenerate(1)
  \/ Authenticate
  \/ UpdateUser

\* ------------------------------------ requests in flight and their cancellation
\* The steps of coreService.SendMultipartMessage with its upload goroutines,
\* and of a call of chatkitServerClient.do, next to a caller's context.

\* options.Parts by the kind of each part; a part is told from the others by
\* n, the name of its file or text.
KindLists ==
  {<<>>, <<InlinePart>>, <<AttachmentPart>>, <<AttachmentPart, AttachmentPart>>,
   <<InlinePart, AttachmentPart>>, <<AttachmentPart, InlinePart, AttachmentPart>>,
   <<AttachmentPart, AttachmentPart, AttachmentPart>>}
PartsOf(kinds) == [i \in 1 .. Len(kinds) |-> [kind |-> kinds[i], n |-> i]]
MultipartOptions == [RoomID : RoomIDs, SenderID : {EmptyString, "alice"},
                     Parts : {PartsOf(k) : k \in KindLists}]

\* make([]interface{}, len(options.Parts)): nil in every place.
NilPart == [kind |-> "nil", n |-> 0]
\* newAttachmentPartUploaded{}: what uploadAttachment returns next to an error.
ZeroUploaded == [kind |-> "uploaded", n |-> 0]
\* The reference to the uploaded attachment of the part named n: the
\* attachment_id the presign response gave for it.
Uploaded(n) == [kind |-> "uploaded", n |-> n]

\* A context that was not cancelled. When it is cancelled it records which
\* calls had a request in flight at that instant.
NotCancelled == [cancelled |-> FALSE, caughtMultipart |-> FALSE,
                 caughtLegacy |-> FALSE]

NoMpRet == [messageID |-> NoValue, err |-> FALSE]
NoMpOptions == [RoomID |-> EmptyString, SenderID |-> EmptyString,
                Parts |-> <<>>]

FlightInit ==
  /\ ctx = NotCancelled
  /\ mpPc = "idle"
  /\ mpOptions = NoMpOptions
  /\ upl = <<>>
  /\ requestParts = <<>>
  /\ finished = <<>>
  /\ messageSent = FALSE
  /\ mpRet = NoMpRet
  /\ mpGen = <<>>
  /\ mpOut = <<>>
  /\ mpAnswers = <<>>
  /\ legacyPc = "idle"
  /\ legacyRet = NoError

\* The goroutines whose request (presign or PUT) is in flight.
Uploading == {i \in DOMAIN upl : upl[i] \in {"presign", "put"}}
\* Requests of the multipart call that are in flight.
MultipartInFlight == Uploading # {} \/ mpPc = "message"

\* The caller cancels its context.
Cancel ==
  /\ ~ctx.cancelled
  /\ ctx' = [cancelled |-> TRUE, caughtMultipart |-> MultipartInFlight,
             caughtLegacy |-> legacyPc = "inflight"]
  /\ UNCHANGED <<mpPc, mpOptions, upl, requestParts, finished, messageSent,
                 mpRet, mpGen, mpOut, mpAnswers, legacyPc, legacyRet>>
  /\ UNCHANGED <<authVars, mintVars, dispVars, clientVars>>

\* What a request made with the context can come back with: an error once
\* the context is cancelled, otherwise whatever the exchange gives.
CtxOutcomes(outcomes) == IF ctx.cancelled THEN {TransportError} ELSE outcomes

\* What the steps of a SendMultipartMessage call leave alone.
notMultipart == <<authVars, mintVars, dispVars, cscRet, constructed,
                  authResponse, ctx, legacyPc, legacyRet>>

\* What the call did so far, in the shape of a request helper's result.
Trace(gen, out) == [gen |-> gen, out |-> out] @@ NotRequested

\* What SendMultipartMessage returns next to an error that is no
\* *ErrorResponse, after the backend gave the answers so far.
MultipartFailed(gen) ==
  [Returned("SendMultipartMessage", mpOptions.SenderID, Trace(gen, mpOut),
            FALSE, NoValue, TRUE) EXCEPT !.answers = mpAnswers]

\* SendMultipartMessage up to g.Wait(): the two argument checks, then the
\* loop that starts a goroutine for every attachment and puts every other
\* part in its place of requestParts.
StartSendMultipartMessage ==
  /\ Idle
  /\ \E options \in MultipartOptions :
       /\ mpOptions' = options
       /\ IF Len(options.Parts) = 0 \/ options.SenderID = EmptyString
          THEN /\ mpPc' = "returned"
               /\ mpRet' = [messageID |-> NoValue, err |-> TRUE]
               /\ opRet' = Rejected("SendMultipartMessage", options.SenderID)
               /\ UNCHANGED <<upl, requestParts>>
          ELSE /\ mpPc' = "uploading"
               /\ upl' = [i \in DOMAIN options.Parts |->
                            IF options.Parts[i].kind = AttachmentPart
                            THEN "start" ELSE "none"]
               /\ requestParts' =
                    [i \in DOMAIN options.Parts |->
                       IF options.Parts[i].kind = AttachmentPart
                       THEN NilPart ELSE options.Parts[i]]
               /\ UNCHANGED <<mpRet, opRet>>
  /\ UNCHANGED <<finished, messageSent, mpGen, mpOut, mpAnswers>>
  /\ UNCHANGED notMultipart

SlotInOrderOfReturn(i, done) == Len(done) + 1
\* The place of requestParts the goroutine of part i writes: i (the loop
\* variable it captured), whichever goroutines returned before it.
Slot(i, done) == i

\* The goroutine of part i returns: requestParts[i] = uploadedPart; return err.
GoroutineReturns(i, uploadedPart, ok) ==
  /\ upl' = [upl EXCEPT ![i] = IF ok THEN "ok" ELSE "failed"]
  /\ requestParts' = [requestParts EXCEPT ![Slot(i, finished)] = uploadedPart]
  /\ finished' = finished \o <<i>>

\* uploadAttachment up to the presign request: ReadAll of the file, the
\* request body, the token of the sender, and inst.Request with the context.
\* With a context that is cancelled already no request goes out.
uploadAttachmentStart(i) ==
  /\ mpPc = "uploading" /\ upl[i] = "start"
  /\ \E readOK \in BOOLEAN, genOK \in BOOLEAN :
       LET r == RequestWithUserToken(mpOptions.SenderID,
                  presignOptions(mpOptions.RoomID), genOK, 200)
       IN IF ~readOK
          THEN /\ GoroutineReturns(i, ZeroUploaded, FALSE)
               /\ UNCHANGED <<mpGen, mpOut>>
          ELSE IF ~genOK \/ ctx.cancelled
          THEN /\ GoroutineReturns(i, ZeroUploaded, FALSE)
               /\ mpGen' = mpGen \o r.gen
               /\ UNCHANGED mpOut
          ELSE /\ upl' = [upl EXCEPT ![i] = "presign"]
               /\ mpGen' = mpGen \o r.gen
               /\ mpOut' = mpOut \o r.out
               /\ UNCHANGED <<requestParts, finished>>
  /\ UNCHANGED <<mpPc, mpOptions, messageSent, mpRet, mpAnswers, opRet>>
  /\ UNCHANGED notMultipart

\* The presign request returns; on success uploadToURL builds the PUT with
\* http.NewRequest and starts it with req.WithContext(ctx).
requestPresignedURLReturns(i) ==
  /\ upl[i] = "presign"
  /\ \E outcome \in CtxOutcomes(Outcomes), body \in Bodies, urlOK \in BOOLEAN :
       LET p == requestPresignedURL(mpOptions.SenderID, mpOptions.RoomID, TRUE,
                                    outcome, body)
           r == RequestWithUserToken(mpOptions.SenderID,
                  presignOptions(mpOptions.RoomID), TRUE, outcome)
           u == uploadToURL(p.url, IF urlOK THEN 200 ELSE BadURL)
       IN /\ mpAnswers' = mpAnswers \o AnswerStatuses(r)
          /\ IF p.err \/ u.out = <<>>
             THEN /\ GoroutineReturns(i, ZeroUploaded, FALSE)
                  /\ UNCHANGED mpOut
             ELSE /\ upl' = [upl EXCEPT ![i] = "put"]
                  /\ mpOut' = mpOut \o u.out
                  /\ UNCHANGED <<requestParts, finished>>
  /\ UNCHANGED <<mpPc, mpOptions, messageSent, mpRet, mpGen, opRet>>
  /\ UNCHANGED notMultipart

\* The PUT returns, and with it uploadToURL, uploadAttachment and the
\* goroutine.
uploadToURLReturns(i) ==
  /\ upl[i] = "put"
  /\ \E outcome \in CtxOutcomes(Outcomes) :
       IF uploadToURL(<<"url">>, outcome).err
       THEN GoroutineReturns(i, ZeroUploaded, FALSE)
       ELSE GoroutineReturns(i, Uploaded(mpOptions.Parts[i].n), TRUE)
  /\ UNCHANGED <<mpPc, mpOptions, messageSent, mpRet, mpGen, mpOut, mpAnswers,
                 opRet>>
  /\ UNCHANGED notMultipart

SomeReturned(u) == \E i \in DOMAIN u : u[i] \in {"ok", "failed"}
\* g.Wait() returns when every goroutine started with g.Go has returned.
AllReturned(u) == \A i \in DOMAIN u : u[i] \in {"none", "ok", "failed"}

\* g.Wait() returns; with an error of a goroutine the call returns it,
\* wrapped, otherwise the message request is made with the token of the
\* sender.
Wait ==
  /\ mpPc = "uploading"
  /\ AllReturned(upl)
  /\ \E genOK \in BOOLEAN :
       LET r == RequestWithUserToken(mpOptions.SenderID,
                  messageOptions(mpOptions.RoomID), genOK, 200)
       IN IF \E i \in DOMAIN upl : upl[i] = "failed"
          THEN /\ mpPc' = "returned"
               /\ mpRet' = [messageID |-> NoValue, err |-> TRUE]
               /\ opRet' = MultipartFailed(mpGen)
               /\ UNCHANGED <<messageSent, mpGen, mpOut>>
          ELSE IF genOK /\ ~ctx.cancelled
          THEN /\ mpPc' = "message"
               /\ messageSent' = TRUE
               /\ mpGen' = mpGen \o r.gen
               /\ mpOut' = mpOut \o r.out
               /\ UNCHANGED <<mpRet, opRet>>
          ELSE /\ mpPc' = "returned"
               /\ mpRet' = [messageID |-> NoValue, err |-> TRUE]
               /\ mpGen' = mpGen \o r.gen
               /\ opRet' = MultipartFailed(mpGen \o r.gen)
               /\ UNCHANGED <<messageSent, mpOut>>
  /\ UNCHANGED <<mpOptions, upl, requestParts, finished, mpAnswers>>
  /\ UNCHANGED notMultipart

\* The message request returns; the call decodes the message id and returns.
MessageRequestReturns ==
  /\ mpPc = "message"
  /\ \E outcome \in CtxOutcomes(Outcomes), body \in Bodies :
       LET r == InstRequest(messageOptions(mpOptions.RoomID),
                            <<UserOptions(mpOptions.SenderID)>>, outcome)
           back == RequestThenDecode("SendMultipartMessage", mpOptions.SenderID,
                     [gen |-> mpGen, out |-> mpOut] @@ r, body)
       IN /\ opRet' = [back EXCEPT !.answers = mpAnswers \o AnswerStatuses(r)]
          /\ mpRet' = [messageID |-> back.value, err |-> back.err]
          /\ mpAnswers' = mpAnswers \o AnswerStatuses(r)
  /\ mpPc' = "returned"
  /\ UNCHANGED <<mpOptions, upl, requestParts, finished, messageSent, mpGen,
                 mpOut>>
  /\ UNCHANGED notMultipart

\* A method of the first client calls do(req, nil): csc.Client.Do(req) with
\* a request made by http.NewRequest, which carries no context of the caller.
doStarts ==
  /\ legacyPc = "idle"
  /\ legacyPc' = "inflight"
  /\ UNCHANGED <<ctx, mpPc, mpOptions, upl, requestParts, finished, messageSent,
                 mpRet, mpGen, mpOut, mpAnswers, legacyRet>>
  /\ UNCHANGED <<authVars, mintVars, dispVars, clientVars>>

\* csc.Client.Do returns when the exchange ends, and do with it.
doReturns ==
  /\ legacyPc = "inflight"
  /\ \E x \in Exchanges :
       legacyRet' = do(newRequest("POST", CHATKIT_AUTH, <<"/roles">>,
                                  <<"role">>).req[1], FALSE, x).err
  /\ legacyPc' = "returned"
  /\ UNCHANGED <<ctx, mpPc, mpOptions, upl, requestParts, finished, messageSent,
                 mpRet, mpGen, mpOut, mpAnswers>>
  /\ UNCHANGED <<authVars, mintVars, dispVars, clientVars>>

FlightNext ==
  \/ Cancel
  \/ StartSendMultipartMessage
  \/ \E i \in DOMAIN upl : uploadAttachmentStart(i)
  \/ \E i \in DOMAIN upl : requestPresignedURLReturns(i)
  \/ \E i \in DOMAIN upl : uploadToURLReturns(i)
  \/ Wait
  \/ MessageRequestReturns
  \/ doStarts
  \/ doReturns

\* The operations of the services; SendMultipartMessage by its steps.
OpsNext ==
  \/ GetRoles
  \/ createRole
  \/ deleteRole
  \/ getPermissions
  \/ updatePermissions
  \/ GetUserRoles
  \/ assignRoleToUser
  \/ removeRoleForUser
  \/ AuthorizerRequest
  \/ GetUser
  \/ UpdateUser
  \/ CreateRoom
  \/ SendMessage
  \/ StartSendMultipartMessage
  \/ \E i \in DOMAIN upl : uploadAttachmentStart(i)
  \/ \E i \in DOMAIN upl : requestPresignedURLReturns(i)
  \/ \E i \in DOMAIN upl : uploadToURLReturns(i)
  \/ Wait
  \/ MessageRequestReturns
  \/ DeleteMessage
  \/ CoreRequest
  \/ GetReadCursor
  \/ SetReadCursor
  \/ CursorsRequest

\* ------------------------------------------------------------ specifications
Init ==
  /\ AuthInit /\ MintInit /\ DispInit /\ OpsInit /\ CscInit /\ ConfigInit
  /\ AuthenticateInit /\ FlightInit

\* The cached superuser token under concurrent callers.
Next == AuthNext
Spec == Init /\ [][Next]_vars

\* The token-generation functions on every input.
SpecMint == Init /\ [][MintNext]_vars

\* A multipart send with its upload goroutines and a call of the first
\* client, while the caller may cancel its context.
SpecFlight == Init /\ [][FlightNext]_vars

\* Per-user tokens and the cached superuser token.
SpecPerUser == Init /\ [][PerUserNext]_vars

\* Pairs of runs of the token-generation functions.
SpecMintTwice == Init /\ [][MintTwiceNext]_vars

\* The request helpers.
SpecDispatch == Init /\ [][DispNext]_vars

\* The operations of the authorizer, core and cursors services.
SpecOps == Init /\ [][OpsNext]_vars

\* The methods of chatkitServerClient.
SpecCsc == Init /\ [][CscNext]_vars

\* The operations of both clients; a program uses one of the two.
DispatcherNext ==
  \/ cscRet = NoCscRet /\ OpsNext
  \/ Idle /\ CscNext
SpecDispatcher == Init /\ [][DispatcherNext]_vars

\* The construction of a chatkitServerClient from its configuration strings.
SpecConfig == Init /\ [][ConfigNext]_vars

\* Calls of authenticate while the clock moves on.
SpecAuthenticate == Init /\ [][AuthenticateNext]_vars


\* =================================================== properties of the cache
\* Positions at which a caller holds the lock: between Lock and the return.
InsideLock == {"check", "mint"}

Inside == {g \in Callers : pc[g] \in InsideLock}

Finished(g) == pc[g] = "done"

\* C1: in every interleaving of the callers at most one of them is inside
\* the check-expiry / regenerate / read-cached-token sequence, and that one
\* holds the mutex; so two token generations never overlap.
C1_MutualExclusion ==
  /\ Cardinality(Inside) <= 1
  /\ \A g \in Inside : mutex = g
  /\ Cardinality({g \in Callers : pc[g] = "mint"}) <= 1

\* One caller is regenerating while another has called and waits for the lock.
C1_Witness ==
  \E g, h \in Callers : g # h /\ pc[g] = "mint" /\ pc[h] = "lock"

\* Every caller has made exactly one call and all calls have returned.
AllCalledOnce == calls = NumCallers /\ \A g \in Callers : Finished(g)

\* The calls happened together: no two of them read the clock more than one
\* token lifetime apart.
ReadTogether ==
  \A g, h \in Callers : timeNow[h] <= Add(timeNow[g], SUTokenDuration)

\* C2: when every caller calls getSUToken once on a fresh authenticator and
\* signing succeeds, every caller receives a non-empty token; when the calls
\* happen together, exactly one regeneration is performed in total and all
\* callers receive the same token string.
C2_ColdConcurrentCalls ==
  (AllCalledOnce /\ signFailures = 0) =>
    /\ \A g \in Callers : ~result[g].err /\ result[g].token # EmptyToken
    /\ ReadTogether =>
         /\ regenCount = 1
         /\ \A g, h \in Callers : result[g].token = result[h].token

\* All callers returned from their concurrent first calls, and the clock was
\* read at different instants.
C2_Witness ==
  /\ AllCalledOnce /\ signFailures = 0 /\ ReadTogether
  /\ \E g, h \in Callers : timeNow[g] # timeNow[h]
  /\ \A g \in Callers : result[g].token # EmptyToken

\* The cache was warm when the latest call of g looked at it: an earlier call
\* had succeeded, and less than a token lifetime had passed since the cached
\* token was generated.
WarmAtCall(g) ==
  /\ seen[g].issued # EmptyToken
  /\ ~After(timeNow[g], Add(seen[g].genChecked, SUTokenDuration))

\* C3: a call that finds the cache warm returns the token string the previous
\* successful call returned and performs no regeneration.
C3_WarmCallReturnsSameToken ==
  \A g \in Callers :
    (Finished(g) /\ WarmAtCall(g)) =>
      /\ ~result[g].err
      /\ result[g].token = seen[g].issued
      /\ gens[g] = 0

\* A call on a warm cache has returned, some time after the token was made.
C3_Witness ==
  \E g \in Callers :
    /\ Finished(g) /\ WarmAtCall(g)
    /\ timeNow[g] > seen[g].genChecked
    /\ result[g].token = seen[g].issued

\* C4: while no token has been cached (from construction on) the cached
\* expiry is strictly in the past, so a call that finds the fresh cache
\* performs exactly one regeneration and never returns the empty token as a
\* success.
C4_FirstCallRegenerates ==
  /\ token = EmptyToken => After(clock, tokenExpiry)
  /\ \A g \in Callers :
       (Finished(g) /\ seen[g].token = EmptyToken) =>
         /\ gens[g] = 1
         /\ ~result[g].err => result[g].token # EmptyToken

\* The first call on a fresh authenticator has returned a token.
C4_Witness ==
  \E g \in Callers :
    /\ Finished(g) /\ seen[g].token = EmptyToken /\ seen[g].expiry = ConstructedExpiry(0)
    /\ gens[g] = 1 /\ ~result[g].err /\ result[g].token # EmptyToken

\* The latest call of g found a token in the cache and its expiry passed.
ExpiredAtCall(g) ==
  /\ seen[g].token # EmptyToken
  /\ After(timeNow[g], seen[g].expiry)

\* C5 as stated: a call that finds the cached token expired performs exactly
\* one regeneration and returns a token string different from the cached one.
C5_RegeneratedTokenDiffers ==
  \A g \in Callers :
    (Finished(g) /\ ExpiredAtCall(g)) =>
      /\ gens[g] = 1
      /\ ~result[g].err => result[g].token # seen[g].token

\* C5, amended: a call that finds the cached token expired performs exactly
\* one regeneration; the token it returns differs from the cached one exactly
\* when it is minted in another Unix second than the cached one was, and
\* always does with token.go's getToken.
C5_RegeneratedTokenDiffersBySecond ==
  \A g \in Callers :
    (Finished(g) /\ ExpiredAtCall(g)) =>
      /\ gens[g] = 1
      /\ ~result[g].err =>
           /\ (result[g].token # seen[g].token) <=>
                (ClaimsOf(result[g].token).iat # ClaimsOf(seen[g].token).iat)
           /\ ClaimsOf(result[g].token).iat >= ClaimsOf(seen[g].token).iat
           /\ variant = "suTokenManager" => result[g].token # seen[g].token

\* An expired token has been replaced by a different one.
C5_Witness ==
  \E g \in Callers :
    /\ Finished(g) /\ ExpiredAtCall(g) /\ ~result[g].err
    /\ result[g].token # seen[g].token
    /\ variant = "authenticator"

\* The instant the latest generation took as "now": the reading compared with
\* the expiry in authenticator.go, the reading of the claims in token.go.
GenerationNow ==
  IF variant = "authenticator" THEN genAt.checked ELSE genAt.minted

\* C6: a call regenerates if and only if its clock reading is strictly after
\* the cached expiry (at the expiry itself the cached token is returned); the
\* regenerated token has su = true and lives 24 hours, and the cache stores
\* the expiry now + 24h.
C6_RegenerateIffExpired ==
  /\ \A g \in Callers :
       Finished(g) =>
         /\ gens[g] = (IF After(timeNow[g], seen[g].expiry) THEN 1 ELSE 0)
         /\ (gens[g] = 0) => (~result[g].err /\ result[g].token = seen[g].token)
         /\ (gens[g] = 1 /\ ~result[g].err) =>
              LET c == ClaimsOf(result[g].token)
              IN /\ c.su = TRUE
                 /\ "sub" \notin DOMAIN c
                 /\ c.exp = c.iat + Unix(SUTokenDuration)
  /\ token # EmptyToken => tokenExpiry = Add(GenerationNow, SUTokenDuration)

\* A call read the clock exactly at the cached expiry and got the cached token.
C6_Witness ==
  \E g \in Callers :
    /\ Finished(g)
    /\ seen[g].token # EmptyToken
    /\ timeNow[g] = seen[g].expiry
    /\ gens[g] = 0
    /\ result[g].token = seen[g].token


\* ================================= properties of the token-generation functions
\* A token-generation function has been called and signing succeeded.
Minted == minted.fn # "none" /\ ~minted.err

MintedClaims == ClaimsOf(minted.tok)

HasSu(c) == "su" \in DOMAIN c
HasSub(c) == "sub" \in DOMAIN c

\* The call asked for a superuser token / for a token of a user.
SuperuserMint ==
  \/ minted.fn = "NewChatkitSUToken"
  \/ minted.fn = "NewChatkitToken" /\ minted.su /\ minted.userID = NilUser
PerUserMint ==
  \/ minted.fn = "NewChatkitUserToken"
  \/ minted.fn = "NewChatkitToken" /\ ~minted.su /\ minted.userID # NilUser

\* C7 as stated: every minted claim set contains exactly one of su and sub; a
\* superuser token has su = true and no sub key, a per-user token has
\* sub = userID and no su key.
C7_ExactlyOneOfSuAndSub ==
  Minted =>
    LET c == MintedClaims
    IN /\ HasSu(c) # HasSub(c)
       /\ SuperuserMint => (HasSu(c) /\ c.su = TRUE /\ ~HasSub(c))
       /\ PerUserMint => (HasSub(c) /\ c.sub = minted.userID[1] /\ ~HasSu(c))

\* C7, amended: every minted claim set carries su or sub. A superuser token
\* has su = true and no sub key. A per-user token has sub = userID; it has no
\* su key when NewChatkitUserToken minted it and su = false when
\* NewChatkitToken did, which always writes the su key it was given and
\* writes sub exactly when a userID was supplied (both keys, then).
C7_SuAndSubFollowTheArguments ==
  Minted =>
    LET c == MintedClaims
    IN /\ HasSu(c) \/ HasSub(c)
       /\ SuperuserMint => (HasSu(c) /\ c.su = TRUE /\ ~HasSub(c))
       /\ PerUserMint => (HasSub(c) /\ c.sub = minted.userID[1])
       /\ minted.fn = "NewChatkitUserToken" => ~HasSu(c)
       /\ minted.fn = "NewChatkitToken" =>
            /\ HasSu(c) /\ c.su = minted.su
            /\ HasSub(c) <=> minted.userID # NilUser

\* NewChatkitToken minted a per-user token: sub and su = false together.
C7_Witness ==
  /\ Minted /\ minted.fn = "NewChatkitToken"
  /\ minted.userID = UserPtr("alice") /\ ~minted.su
  /\ MintedClaims.sub = "alice" /\ MintedClaims.su = FALSE

\* C8: for every token minted by any token-generation function, with any
\* duration the caller can pass, exp is strictly greater than iat.
C8_ExpAfterIat ==
  Minted => MintedClaims.exp > MintedClaims.iat

\* C9 as stated: for every token minted with duration d, exp = iat + d in
\* whole seconds, for every issue instant and every d.
C9_ExpIsIatPlusDuration ==
  Minted => MintedClaims.exp = MintedClaims.iat + Seconds(minted.d)[1]

\* C9, amended: exp is the Unix second of (issue instant + d). It equals
\* iat + d when d is a whole number of seconds; otherwise it is iat plus d
\* rounded down or that plus one, depending on the sub-second part of the
\* issue instant.
C9_ExpIsUnixOfIssuePlusDuration ==
  Minted =>
    LET c == MintedClaims
        whole == Seconds(minted.d)[1]
        part == Seconds(minted.d)[2]
    IN /\ c.iat = Unix(minted.now)
       /\ c.exp = Unix(minted.now + minted.d)
       /\ part = 0 => c.exp = c.iat + whole
       /\ part # 0 => c.exp \in {c.iat + whole, c.iat + whole + 1}

\* A token of one hour was minted at an instant that is not a whole second.
C9_Witness ==
  /\ Minted /\ minted.d = Hour
  /\ minted.now % Second # 0
  /\ MintedClaims.exp = MintedClaims.iat + 3600

\* ============================================ properties of the request helpers
\* C10: if token generation fails while preparing a request (superuser or
\* per-user), the helper returns the error and no response and sends no
\* request; no request is ever sent without a token.
C10_NoRequestWithoutToken ==
  /\ ret.genErr =>
       /\ ret.err
       /\ ret.resp = NoResponse
       /\ Len(sent) = ret.sentBefore
  /\ \A i \in 1 .. Len(sent) : sent[i].Jwt # NoJwt /\ sent[i].Jwt[1] # EmptyToken

\* A helper whose token generation failed has returned, after an earlier
\* request went out.
C10_Witness ==
  /\ ret.genErr /\ ret.err
  /\ Len(sent) = 1 /\ ret.sentBefore = 1

\* ============================================= properties of the operations
\* Headers of a request built by newRequest.
HasAuthorization(req) == \E h \in req.Header : h[1] = "Authorization"

\* C11: every HTTP request a client operation sends to a backend service
\* carries an Authorization: Bearer header with a token of this client; here,
\* every request a chatkitServerClient method sends.
C11_EveryRequestCarriesBearerToken ==
  \A i \in 1 .. Len(cscRet.sent) : HasAuthorization(cscRet.sent[i])

\* The operations by the token their code asks for.
UserOps == {"UpdateUser", "CreateRoom", "SendMessage", "SendMultipartMessage"}
RawOps == {"AuthorizerRequest", "CoreRequest", "CursorsRequest"}
TypedAuthorizerOps == {"GetRoles", "createRole", "deleteRole", "getPermissions",
                       "updatePermissions", "GetUserRoles", "assignRoleToUser",
                       "removeRoleForUser"}
SuOps == TypedAuthorizerOps \cup
         {"GetUser", "DeleteMessage", "GetReadCursor", "SetReadCursor"}

\* A request that uploadToURL sent to a presigned URL, not to the backend.
IsUpload(req) == req.Method = "PUT" /\ req.Path[1] = "upload_url"

\* The requests of the latest operation that went to the backend service.
BackendRequests == SelectSeq(opRet.out, LAMBDA req : ~IsUpload(req))

\* The auth.Options of the token a request carries.
TokenOptions(req) == req.Jwt[1][1]

\* C12: an operation that is an end user's own action (SendMessage,
\* SendMultipartMessage with its presign requests, UpdateUser, CreateRoom)
\* sends every backend request with a token generated for the acting user
\* (sub = sender, updated user, room creator) and without the su claim.
C12_UserActionsUseTheActingUsersToken ==
  opRet.op \in UserOps =>
    /\ \A i \in 1 .. Len(BackendRequests) :
         /\ BackendRequests[i].Jwt # NoJwt
         /\ TokenOptions(BackendRequests[i]).UserID = UserPtr(opRet.userID)
         /\ ~TokenOptions(BackendRequests[i]).Su
    /\ \A i \in 1 .. Len(opRet.gen) :
         opRet.gen[i] = UserOptions(opRet.userID)

\* A multipart message with an attachment went out: a presign request, the
\* upload, and the message, for alice.
C12_Witness ==
  /\ opRet.op = "SendMultipartMessage" /\ opRet.userID = "alice"
  /\ ~opRet.err
  /\ Len(BackendRequests) = 2 /\ Len(opRet.out) = 3
  /\ BackendRequests[1].Path[3] = "/attachments"

\* C13 as stated: a system operation attaches the cached superuser token, so
\* dispatching its request generates no token.
C13_SuDispatchGeneratesNoToken ==
  (opRet.op \in SuOps /\ opRet.out # <<>>) => opRet.gen = <<>>

\* C13 amended: a system operation that gets past its validation generates
\* one token per call, with Su: true and no user id, and the request it
\* sends carries that token.
C13_SuDispatchGeneratesItsToken ==
  (opRet.op \in SuOps /\ (opRet.reqErr \/ opRet.out # <<>>)) =>
    /\ opRet.gen = <<SuOptions>>
    /\ \A i \in 1 .. Len(opRet.out) :
         opRet.out[i].Jwt = << generateTokenFromInstance(opRet.gen[1], TRUE).token >>

\* A system operation sent its request and returned without error.
C13_Witness ==
  /\ opRet.op = "GetUser" /\ ~opRet.err
  /\ Len(opRet.out) = 1 /\ Len(opRet.gen) = 1

\* The operations of the authorizer service.
AuthorizerOps == TypedAuthorizerOps \cup {"AuthorizerRequest"}

\* C14: every method of the authorizer service, the generic Request
\* included, sends its request with a token carrying the su claim.
C14_AuthorizerRequestsCarrySu ==
  opRet.op \in AuthorizerOps =>
    \A i \in 1 .. Len(opRet.out) :
      opRet.out[i].Jwt # NoJwt /\ TokenOptions(opRet.out[i]).Su

\* A method of chatkitServerClient got a response with this status code.
Answered == cscRet.sent # <<>> /\ cscRet.x.doOK
StatusCode == cscRet.x.resp.StatusCode

\* C15: for every operation of either client, a backend answer with a status
\* >= 300 makes the operation return a non-nil error carrying the status
\* (and, in the first client, the response body), and nothing is decoded.
\* The body inside the platform client's *ErrorResponse is not modelled.
C15_ErrorCarriesStatusAndBody ==
  /\ (Answered /\ StatusCode >= 300) =>
       /\ cscRet.err = <<cscRet.x.resp.Status, ": ", cscRet.x.body>>
       /\ cscRet.value = NoValue
  /\ \A i \in 1 .. Len(opRet.answers) :
       opRet.answers[i] >= 300 =>
         /\ opRet.err
         /\ opRet.errStatus = opRet.answers[i]
         /\ opRet.value = NoValue

\* C16: a 2xx response with an empty body gives no error and no decoded
\* value, whether or not the method passed a destination to decode into.
C16_EmptyBodyIsNoErrorAndNoValue ==
  (Answered /\ StatusCode >= 200 /\ StatusCode < 300
            /\ cscRet.x.body = EmptyBody) =>
    /\ cscRet.err = NoError
    /\ cscRet.value = NoValue

\* C17: a typed operation whose request helper returned an error, or whose
\* response could not be decoded, returns a non-nil error.
C17_FailedDispatchIsSurfaced ==
  (opRet.op \notin RawOps /\ (opRet.reqErr \/ opRet.decErr)) => opRet.err

\* C18: no retries: a call of an operation that sends a single request
\* generates at most one token and sends at most one request, whether it
\* succeeds or token generation, the transport or the backend fails; and a
\* failed token generation sends nothing.
C18_NoRetries ==
  (opRet.op # "SendMultipartMessage") =>
    /\ Len(opRet.gen) <= 1
    /\ Len(opRet.out) <= 1
    /\ opRet.op \notin RawOps /\ opRet.out # <<>> => Len(opRet.gen) = 1

\* A call met a transport error: one token, one request, and the error.
C18_Witness ==
  /\ opRet.op = "GetUserRoles" /\ opRet.err /\ opRet.reqErr
  /\ opRet.resp = NoResponse /\ opRet.errStatus = NoStatus
  /\ Len(opRet.gen) = 1 /\ Len(opRet.out) = 1

\* ================================================ properties of construction
\* The number of colons in s.
Colons(s) == Cardinality({i \in 1 .. Len(s) : s[i] = Colon})

\* s holds exactly n non-empty components: n - 1 colons, none at either end
\* and no two next to each other.
WellFormed(s, n) ==
  /\ s # <<>>
  /\ Colons(s) = n - 1
  /\ s[1] # Colon /\ s[Len(s)] # Colon
  /\ \A i \in 1 .. Len(s) - 1 : ~(s[i] = Colon /\ s[i + 1] = Colon)

\* The client NewChatkitServerClient returned.
TheClient == constructed.client[1]

\* C19: construction succeeds exactly when the instance locator holds 3 and
\* the key 2 non-empty colon-separated components; the client then holds the
\* components in order (apiVersion:host:appID and keyID:keySecret); otherwise
\* an error is returned and no client or token manager is made.
C19_ParsingSucceedsIffWellFormed ==
  constructed.called =>
    /\ constructed.err = NoError <=>
         WellFormed(constructed.instanceID, 3) /\ WellFormed(constructed.key, 2)
    /\ constructed.err # NoError => constructed.client = NoClient
    /\ constructed.err = NoError =>
         LET tm == TheClient.tokenManager
             apiVersion == TheClient.authEndpoint[6]
             host == TheClient.authEndpoint[2]
         IN /\ apiVersion \o <<Colon>> \o host \o <<Colon>> \o tm.appID
                 = constructed.instanceID
            /\ tm.keyID \o <<Colon>> \o tm.keySecret = constructed.key
            /\ TheClient.authEndpoint[8] = tm.appID
            /\ TheClient.serverEndpoint
                 = [TheClient.authEndpoint EXCEPT ![4] = CHATKIT_SERVER]

\* A client was made from components of different lengths.
C19_Witness ==
  /\ constructed.called /\ constructed.err = NoError
  /\ constructed.instanceID = <<"a", "a", Colon, "a", Colon, "a", "a">>
  /\ TheClient.tokenManager.appID = <<"a", "a">>
  /\ Len(constructed.key) = 4 /\ Len(TheClient.tokenManager.keySecret) = 1

\* ================================================ properties of authenticate
\* The response authenticate returned.
TheResponse == authResponse.resp[1]

\* C20: authenticate(userID) always returns a response: status 500 with the
\* error "token_provider/token_signing_failure" exactly when signing fails,
\* and status 200 with a non-empty access_token of the user and token_type
\* "bearer" exactly when it succeeds.
C20_AuthenticateReturnsAResponse ==
  authResponse.called =>
    /\ DOMAIN TheResponse = {"Status", "Headers", "Body"}
    /\ TheResponse.Status \in {200, 500}
    /\ TheResponse.Status = 500 <=> ~authResponse.signOK
    /\ TheResponse.Status = 200 <=> authResponse.signOK
    /\ TheResponse.Status = 500 =>
         TheResponse.Body.ErrorType = "token_provider/token_signing_failure"
    /\ TheResponse.Status = 200 =>
         /\ TheResponse.Body.AccessToken # EmptyToken
         /\ TheResponse.Body.TokenType = "bearer"
         /\ ClaimsOf(TheResponse.Body.AccessToken).sub = authResponse.userID
         /\ ClaimsOf(TheResponse.Body.AccessToken).su = FALSE

\* Signing failed in a call of authenticate, which answered with status 500.
C20_Witness ==
  /\ authResponse.called /\ ~authResponse.signOK
  /\ authResponse.userID = "alice" /\ clock > 0
  /\ TheResponse.Status = 500

\* The claims of the token in a 200 response of authenticate.
ResponseClaims == ClaimsOf(TheResponse.Body.AccessToken)

\* C21 as stated: authenticate("bob") returns status 200 with token_type
\* "bearer" and expires_in = 3600 (a per-user duration of 1h), and the token
\* has sub = "bob" and iss = "api_keys/" followed by the key id.
C21_AuthenticateBobExpiresInAnHour ==
  (authResponse.called /\ authResponse.signOK /\ authResponse.userID = "bob") =>
    /\ TheResponse.Status = 200
    /\ TheResponse.Body.TokenType = "bearer"
    /\ TheResponse.Body.ExpiresIn = <<3600, 0>>
    /\ ResponseClaims.sub = "bob"
    /\ ResponseClaims.iss = <<"api_keys/", KeyID>>

\* C21, amended: authenticate takes no duration. Whenever signing succeeds
\* it returns status 200 with token_type "bearer" and expires_in = 86400,
\* the seconds of the 24 hours it asks NewChatkitToken for, and the token
\* has sub = userID, iss = "api_keys/" followed by the key id, and
\* exp 86400 seconds after iat.
C21_AuthenticateExpiresInADay ==
  (authResponse.called /\ authResponse.signOK) =>
    /\ TheResponse.Status = 200
    /\ TheResponse.Body.TokenType = "bearer"
    /\ TheResponse.Body.ExpiresIn = <<86400, 0>>
    /\ ResponseClaims.sub = authResponse.userID
    /\ ResponseClaims.iss = <<"api_keys/", KeyID>>
    /\ ResponseClaims.exp = ResponseClaims.iat + 86400

\* authenticate("bob") answered 200 with a token of bob after the clock moved.
C21_Witness ==
  /\ authResponse.called /\ authResponse.signOK
  /\ authResponse.userID = "bob" /\ clock > 0
  /\ TheResponse.Status = 200 /\ ResponseClaims.sub = "bob"

\* ============================================ properties of two runs of a mint
\* Both runs have returned, and they were called with the same function and
\* arguments and read the same issue time.
SameInputs ==
  /\ mintRuns[1].pc = "returned" /\ mintRuns[2].pc = "returned"
  /\ mintRuns[1].in = mintRuns[2].in
  /\ mintRuns[1].now = mintRuns[2].now

\* C22: two runs of a token-generation function with identical function,
\* arguments (su / sub choice, duration) and issue time, under the same
\* credentials, return the identical token string, whenever each of them
\* signs and returns and whatever the other run did in between.
C22_MintingIsDeterministic ==
  SameInputs => mintRuns[1].tok = mintRuns[2].tok

\* Two runs for bob read the same instant and returned at different
\* instants, with the same token, which is a signed token of bob.
C22_Witness ==
  /\ SameInputs
  /\ mintRuns[1].at # mintRuns[2].at
  /\ mintRuns[1].in.fn = "NewChatkitUserToken"
  /\ mintRuns[1].tok = mintRuns[2].tok /\ ClaimsOf(mintRuns[2].tok).sub = "bob"

\* ====================================== validity of the returned superuser token
\* tok is a signed token under keySecret that is valid at the instant now:
\* issued no later and expiring no earlier than the Unix second of now.
ValidAt(tok, keySecret, now) ==
  /\ tok # EmptyToken
  /\ tok[1] = "HS256"
  /\ tok[3] = <<keySecret, ClaimsOf(tok)>>
  /\ ClaimsOf(tok).iat <= Unix(now)
  /\ ClaimsOf(tok).exp >= Unix(now)

\* Caller g returns from getSUToken / getToken in this step, without error.
ReturnsToken(g) == pc[g] # "done" /\ pc'[g] = "done" /\ ~result'[g].err

\* C23: every token a successful getSUToken / getToken call returns is, at
\* the instant of the return, signed under the authenticator's keySecret,
\* issued no later than the current Unix time and expiring no earlier, also
\* when the cached token is returned at the very end of its cached lifetime.
C23_ReturnedTokenIsValid ==
  [][\A g \in Callers :
       ReturnsToken(g) => ValidAt(result'[g].token, KeySecret, clock')]_vars

\* A call returned the cached token at the instant of the cached expiry, the
\* last at which it is not regenerated, in the last second of its validity.
C23_Witness ==
  \E g \in Callers :
    /\ pc[g] = "done" /\ ~result[g].err /\ gens[g] = 0
    /\ clock = timeNow[g] /\ timeNow[g] = seen[g].expiry
    /\ ClaimsOf(result[g].token).exp = Unix(clock)

\* ================================================ properties of per-user tokens
\* The step is a call of authenticate / of an operation of a user that was
\* not rejected.
AuthenticateStep == authResponse' # authResponse
UserRequestStep == opRet' # opRet /\ opRet'.gen # <<>>

\* C24: per-user tokens are never cached. A call of authenticate signs a
\* token of its user at the present time and never hands out the cached
\* token; a call through RequestWithUserToken has a token generated for its
\* user and sends that one; both leave the cached superuser token, its expiry
\* and the lock as they were.
C24_PerUserTokensAreNeverCached ==
  [][/\ AuthenticateStep =>
          /\ <<token, tokenExpiry, mutex>>' = <<token, tokenExpiry, mutex>>
          /\ authResponse'.signOK =>
               LET tok == authResponse'.resp[1].Body.AccessToken
               IN /\ ValidAt(tok, KeySecret, clock')
                  /\ ClaimsOf(tok).iat = Unix(clock')
                  /\ ClaimsOf(tok).sub = authResponse'.userID
                  /\ tok # token
     /\ UserRequestStep =>
          /\ <<token, tokenExpiry, mutex>>' = <<token, tokenExpiry, mutex>>
          /\ opRet'.gen = <<UserOptions(opRet'.userID)>>
          /\ \A i \in 1 .. Len(opRet'.out) :
               opRet'.out[i].Jwt = << <<UserOptions(opRet'.userID)>> >>
    ]_vars

\* With a superuser token in the cache, authenticate was called in a later
\* second and returned a token of bob issued then, and UpdateUser sent a
\* request with a token generated for alice; the cache still holds its token.
C24_Witness ==
  /\ token # EmptyToken /\ lastIssued = token
  /\ authResponse.called /\ authResponse.signOK /\ authResponse.userID = "bob"
  /\ ResponseClaims.sub = "bob"
  /\ ResponseClaims.iat > ClaimsOf(token).iat
  /\ opRet.op = "UpdateUser" /\ opRet.userID = "alice" /\ Len(opRet.out) = 1

\* ==================================================== the sub claim
\* C25: a token signed by NewChatkitToken, with either value of the su flag,
\* has a sub claim if and only if a non-nil userID was supplied, and the
\* claim is then that userID.
C25_SubIffUserIDSupplied ==
  (Minted /\ minted.fn = "NewChatkitToken") =>
    /\ HasSub(MintedClaims) <=> minted.userID # NilUser
    /\ minted.userID # NilUser => MintedClaims.sub = minted.userID[1]
    /\ MintedClaims.su = minted.su

\* NewChatkitToken signed a superuser token that names a user.
C25_Witness ==
  /\ Minted /\ minted.fn = "NewChatkitToken"
  /\ minted.su /\ minted.userID = UserPtr("bob")
  /\ MintedClaims.sub = "bob" /\ MintedClaims.su = TRUE

\* ================================================ properties of requests in flight
\* C26: when the caller's context is cancelled while an operation has a
\* request in flight, the operation returns an error, and no request the
\* operation started is in flight once it has returned. Stated for a
\* multipart send and for an operation of the first client.
C26_CancellationAbortsTheOperation ==
  /\ (mpPc = "returned" /\ ctx.caughtMultipart) => mpRet.err
  /\ mpPc = "returned" => Uploading = {}
  /\ (legacyPc = "returned" /\ ctx.caughtLegacy) => legacyRet # NoError

\* C27: the parts of the message request stand at the indices of
\* options.Parts: every inline part unchanged, every attachment part
\* replaced by the reference to its own upload, in whatever order the
\* upload goroutines returned.
C27_PartsKeepTheirIndices ==
  messageSent =>
    /\ Len(requestParts) = Len(mpOptions.Parts)
    /\ \A i \in DOMAIN mpOptions.Parts :
         requestParts[i] =
           IF mpOptions.Parts[i].kind = AttachmentPart
           THEN Uploaded(mpOptions.Parts[i].n)
           ELSE mpOptions.Parts[i]

\* The message request was made after three uploads returned in the reverse
\* order of their parts.
C27_Witness ==
  /\ messageSent /\ finished = <<3, 2, 1>>
  /\ requestParts[1] = Uploaded(1) /\ requestParts[3] = Uploaded(3)

\* ================================================ properties of argument validation
\* The operations that check the user id they are given.
UserIDCheckedOps ==
  {"GetUserRoles", "assignRoleToUser", "removeRoleForUser", "GetUser",
   "UpdateUser", "CreateRoom", "SendMessage", "SendMultipartMessage",
   "SetReadCursor"}

\* The call returned an error that came neither from a request helper nor
\* from decoding a response: its arguments were rejected.
ArgumentsRejected == opRet.err /\ ~opRet.reqErr /\ ~opRet.decErr

\* C28: an operation that rejects its arguments returns its error without
\* having a token generated and without sending a request; an empty user id
\* is rejected in this way by every operation that checks it.
C28_ValidationPrecedesTokenAndRequest ==
  /\ ArgumentsRejected => opRet.gen = <<>> /\ opRet.out = <<>>
  /\ (opRet.op \in UserIDCheckedOps /\ opRet.userID = EmptyString) =>
       ArgumentsRejected /\ opRet.gen = <<>> /\ opRet.out = <<>>

\* SendMultipartMessage was called without a sender and returned an error.
C28_Witness ==
  /\ opRet.op = "SendMultipartMessage" /\ opRet.userID = EmptyString
  /\ ArgumentsRejected /\ opRet.gen = <<>>

\* The upload goroutines that are still running / that returned an error.
Running == {i \in DOMAIN upl : upl[i] \in {"start", "presign", "put"}}
Failed == {i \in DOMAIN upl : upl[i] = "failed"}

\* C29: the message request of SendMultipartMessage is made only when every
\* upload goroutine has returned; if an upload failed (reading the file,
\* the presign request or the PUT), the request is never made and the call
\* returns an error.
C29_MessageOnlyAfterAllUploads ==
  /\ messageSent => Running = {} /\ Failed = {}
  /\ Failed # {} =>
       /\ ~messageSent /\ mpPc # "message"
       /\ mpPc = "returned" => mpRet.err /\ Running = {}

\* The first upload failed while the third was running; the third ran to
\* its end, and only then the call returned its error, without a message
\* request.
C29_Witness ==
  /\ mpPc = "returned" /\ mpRet.err /\ ~messageSent /\ ~ctx.cancelled
  /\ finished = <<1, 3>> /\ upl[1] = "failed" /\ upl[3] = "ok"

\* ================================================ a failed regeneration
\* Caller g returns from getSUToken / getToken in this step with an error.
ReturnsError(g) == pc[g] # "done" /\ pc'[g] = "done" /\ result'[g].err

\* C30: a call whose regeneration fails returns the empty token with the
\* error and leaves the cache as it found it: token and expiry unchanged,
\* still expired for the call's clock reading (so the next call regenerates
\* again), and the lock released. A call that returns without error never
\* hands out the empty or an expired cached token.
C30_FailedRegenerationLeavesTheCache ==
  [][\A g \in Callers :
       /\ ReturnsError(g) =>
            /\ result'[g].token = EmptyToken
            /\ token' = token /\ tokenExpiry' = tokenExpiry
            /\ token' = seen[g].token /\ tokenExpiry' = seen[g].expiry
            /\ After(timeNow[g], tokenExpiry')
            /\ mutex = g /\ mutex' = NoOwner
       /\ ReturnsToken(g) =>
            /\ result'[g].token # EmptyToken
            /\ ClaimsOf(result'[g].token).exp >= Unix(clock')
    ]_vars

\* A call found an expired token in the cache, failed to regenerate it and
\* returned the error; the cache still holds that token and expiry, the lock
\* is free, and a call after it regenerated.
C30_Witness ==
  \E g \in Callers, h \in Callers :
    /\ g # h
    /\ pc[g] = "done" /\ result[g].err /\ result[g].token = EmptyToken
    /\ seen[g].token # EmptyToken
    /\ pc[h] = "done" /\ ~result[h].err /\ gens[h] = 1
    /\ seen[h].token = seen[g].token /\ seen[h].expiry = seen[g].expiry
    /\ timeNow[h] >= timeNow[g]
    /\ mutex = NoOwner

====
